---- MODULE Spec2Model ----
(***************************************************************************)
(* Mementogram backend: the relational store (users, posts, likes,         *)
(* comments, follows) and the request handlers that read and write it.     *)
(* Every request is a call: it occupies a slot of `calls`, runs its        *)
(* queries one database statement per step, answers (pc = "done") and is   *)
(* retired.  A specification with one slot is the sequential semantics;    *)
(* one with several slots interleaves the statements of concurrent         *)
(* requests.                                                               *)
(***************************************************************************)
EXTENDS Integers, Sequences, FiniteSets, TLC

\* ---- bounds of the model
MaxUsers == 2
MaxPosts == 2
MaxComments == 2
MaxTime == 1
MaxCalls == 2
MaxVotePosts == 1  \* posts created in the specifications that cast votes
MaxRegistrations == 1  \* users registered after the initial ones

UserIds == 1..(MaxUsers + 1)  \* ids a URL can name; the last one is no user's
PostIds == 1..MaxPosts        \* ids a URL can name; a post exists once created
CallIds == 1..MaxCalls        \* slots of concurrent requests
SeqCallIds == {CHOOSE c \in CallIds : \A d \in CallIds : c <= d}

\* ---- program constants
FollowingLimit == 1000  \* getFeedForUser reads at most this many followed users
DefaultLimit == 20      \* the page size when the query names none

\* request bodies: strings as sequences of characters
Contents == {<<>>, <<" ">>, <<"a">>, <<" ", "a", " ">>}
Limits == {1, DefaultLimit}
Offsets == {0, 1}

\* emails and usernames a registration can carry, named by numbers; initial
\* user u holds email u and username u
Names == 1..(MaxUsers + MaxRegistrations + 1)

\* a NULL column; texts are sequences of single characters
Null == <<"null">>
\* JSON bodies are records; a field the body does not carry is not in its domain
EmptyBody == [f \in {} |-> <<>>]
NewPost == [content |-> <<"a">>]
CreateBodies == {EmptyBody, [content |-> <<>>], NewPost,
                 [content |-> <<"a">>, imageUrl |-> <<"u">>]}
UpdateBodies == {EmptyBody, [content |-> <<"b">>], [imageUrl |-> <<"u">>],
                 [content |-> <<"b">>, imageUrl |-> <<"u">>]}

VARIABLES
  users,          \* ids of the rows of table users
  userRows,       \* the unique columns of table users: [id, email, username]
  posts,          \* rows of table posts: [id, user_id, content, image_url, created_at]
  likes,          \* rows of table likes: [user_id, post_id, vote_type]
  comments,       \* rows of table comments: [id, post_id, user_id, content]
  follows,        \* rows of table follows: [follower_id, following_id, created_at]
  nextPostId,     \* the serial of posts.id
  nextCommentId,  \* the serial of comments.id
  now,            \* the database clock
  calls,          \* the requests in flight, per slot
  lastCast,       \* history: per (user, post) the last answered cast
                  \* <<type, result>>, kept by RetireLogged
  authState,      \* the client's AuthProvider state
  localStorage,   \* the browser's stored token and user
  card,           \* the state of one PostCard of the client
  feedPage        \* the state of the client's FeedPage

dbvars == <<users, userRows, posts, likes, comments, follows, nextPostId, nextCommentId, now>>
uivars == <<authState, localStorage, card, feedPage>>
vars == <<users, userRows, posts, likes, comments, follows, nextPostId, nextCommentId, now,
          calls, lastCast, authState, localStorage, card, feedPage>>

\* ---- the request slot
IdleCall ==
  [op |-> "none", pc |-> "idle", userId |-> 0, target |-> 0, cur |-> {},
   status |-> 0, result |-> 0, body |-> <<>>, storedBefore |-> 0,
   followsBefore |-> {}, authorBefore |-> 0, bearer |-> 0,
   origin |-> "none", previousVote |-> 0, previousLikeCount |-> 0,
   shownAtClick |-> <<0, 0>>, likesAtClick |-> {}]
\* storedBefore, followsBefore, authorBefore and bearer are history: the caller's
\* stored vote, the follows table and the author of the target post (0 when the
\* post is missing) when the request arrived, and the user of the valid bearer
\* token a request to a public route carried (0 without one).
\* origin is "card" for a request sent by the PostCard's handleVote, whose
\* closure keeps previousVote and previousLikeCount; shownAtClick and
\* likesAtClick are history: the vote and like count the card showed and the
\* post's vote rows when the click was handled

Respond(call, code, res) ==
  [call EXCEPT !.pc = "done", !.status = code, !.result = res]

\* ---- registerUser, one statement per step
\* .where("email", email).orWhere("username", username).first()
findUserByEmailOrUsername(email, username) ==
  {r \in userRows : r.email = email \/ r.username = username}

\* unique(email), unique(username)
UsersInsertOk(email, username) ==
  \A r \in userRows : r.email # email /\ r.username # username

\* the serial of users.id
NextUserId == 1 + Cardinality(users)

registerUser(c, email, username) ==
  /\ calls[c].pc = "idle"
  /\ Cardinality(users) < MaxUsers + MaxRegistrations
  /\ LET call == [IdleCall EXCEPT !.op = "register", !.cur = {<<email, username>>}]
     IN calls' = [calls EXCEPT ![c] =
          IF findUserByEmailOrUsername(email, username) # {}
          THEN Respond(call, 409, 0)
          ELSE [call EXCEPT !.pc = "createUser"]]
  /\ UNCHANGED <<dbvars, lastCast, uivars>>

\* a rejected insert raises the driver's error, whose message holds none of the
\* words registerUser answers 400 for, so it is answered 500
createUser(c) ==
  LET call == calls[c]
      email == (CHOOSE a \in call.cur : TRUE)[1]
      username == (CHOOSE a \in call.cur : TRUE)[2]
  IN /\ call.pc = "createUser"
     /\ IF UsersInsertOk(email, username)
        THEN /\ users' = users \cup {NextUserId}
             /\ userRows' = userRows \cup
                  {[id |-> NextUserId, email |-> email, username |-> username]}
             /\ calls' = [calls EXCEPT ![c] =
                   Respond([call EXCEPT !.userId = NextUserId], 201, 0)]
        ELSE /\ UNCHANGED <<users, userRows>>
             /\ calls' = [calls EXCEPT ![c] = Respond(call, 500, 0)]
     /\ UNCHANGED <<posts, likes, comments, follows, nextPostId, nextCommentId, now,
                    lastCast, uivars>>

\* ---- table posts
PostExists(postId) == \E r \in posts : r.id = postId

AuthorOf(postId) ==
  IF PostExists(postId) THEN (CHOOSE r \in posts : r.id = postId).user_id ELSE 0

\* body.name, undefined when the body does not carry the field
HasField(body, name) == name \in DOMAIN body

\* .insert({ user_id, content, image_url }), image_url NULL when undefined
PostsInsert(userId, content, imageUrl) ==
  /\ userId \in users
  /\ posts' = posts \cup {[id |-> nextPostId, user_id |-> userId, content |-> content,
                           image_url |-> imageUrl, created_at |-> now]}
  /\ nextPostId' = nextPostId + 1

\* the WHERE clause matching on the post id alone
PostsOwnedBy_AnyUser(postId, userId) == {r \in posts : r.id = postId}

\* .where({ id: postId, user_id: userId })
PostsOwnedBy(postId, userId) == {r \in posts : r.id = postId /\ r.user_id = userId}

\* the follow-up existence check answering NotFound for every miss
OwnershipError_AlwaysNotFound(postId) == 404

\* no row matched: NotFoundError when the post is missing, else ForbiddenError
OwnershipError(postId) == IF PostExists(postId) THEN 403 ELSE 404

\* the delete with the foreign keys' onDelete("CASCADE") left out
PostsDeleteCascade_PostsOnly(gone) ==
  /\ posts' = posts \ gone
  /\ UNCHANGED <<likes, comments>>

\* ON DELETE CASCADE of likes.post_id and comments.post_id
PostsDeleteCascade(gone) ==
  /\ posts' = posts \ gone
  /\ likes' = {r \in likes : \A g \in gone : r.post_id # g.id}
  /\ comments' = {r \in comments : \A g \in gone : r.post_id # g.id}

\* ---- table likes
VoteRows(userId, postId) ==
  {r \in likes : r.user_id = userId /\ r.post_id = postId}

\* the insert with the primary key (user_id, post_id) left out of the schema
LikesInsertOk_NoPrimaryKey(userId, postId) ==
  /\ userId \in users
  /\ PostExists(postId)

\* primary key (user_id, post_id), foreign keys to users and posts
LikesInsertOk(userId, postId) ==
  /\ userId \in users
  /\ PostExists(postId)
  /\ VoteRows(userId, postId) = {}

\* the toggle-off branch answering without its DELETE
LikesAfterRemove_KeepRow(userId, postId) == likes

\* .where({user_id, post_id}).del()
LikesAfterRemove(userId, postId) == likes \ VoteRows(userId, postId)

\* the switch done as a removal of the old vote
LikesAfterSwitch_Delete(userId, postId, voteTypeToSet) ==
  likes \ VoteRows(userId, postId)

\* .where({user_id, post_id}).update({vote_type})
LikesAfterSwitch(userId, postId, voteTypeToSet) ==
  (likes \ VoteRows(userId, postId)) \cup
    {[r EXCEPT !.vote_type = voteTypeToSet] : r \in VoteRows(userId, postId)}

\* the insert leaving vote_type to the column's default
LikesAfterInsert_DefaultType(userId, postId, voteTypeToSet) ==
  likes \cup {[user_id |-> userId, post_id |-> postId, vote_type |-> 1]}

\* .insert({user_id, post_id, vote_type})
LikesAfterInsert(userId, postId, voteTypeToSet) ==
  likes \cup {[user_id |-> userId, post_id |-> postId, vote_type |-> voteTypeToSet]}

VoteTypeOf(op) == IF op = "like" THEN 1 ELSE -1

getUserVoteOnPost(userId, postId) ==
  IF userId = 0 THEN 0
  ELSE IF VoteRows(userId, postId) = {} THEN 0
       ELSE (CHOOSE r \in VoteRows(userId, postId) : TRUE).vote_type

\* the aggregate counting every vote row of the post
SumCase_CountAll(rows, voteType) ==
  IF rows = {} THEN {} ELSE {Cardinality(rows)}

\* SUM(CASE WHEN vote_type = voteType THEN 1 ELSE 0 END)::integer: NULL ({}) over
\* no rows, else {n}
SumCase(rows, voteType) ==
  IF rows = {} THEN {} ELSE {Cardinality({r \in rows : r.vote_type = voteType})}

\* column || 0
OrZero(column) == IF column = {} THEN 0 ELSE CHOOSE n \in column : TRUE

getVoteCounts(postId) ==
  LET rows == {r \in likes : r.post_id = postId}
      result == [likeCount |-> SumCase(rows, 1), dislikeCount |-> SumCase(rows, -1)]
  IN [likeCount |-> OrZero(result.likeCount),
      dislikeCount |-> OrZero(result.dislikeCount)]

\* ---- likePost / dislikePost: castOrRemoveVote, one statement per step
\* the post lookup taken to have found the post
postExists_Skipped(postId) == TRUE

\* db(POSTS_TABLE).where({ id: postId }).first("id")
postExists(postId) == PostExists(postId)

\* the request after the post lookup of castOrRemoveVote
castOrRemoveVoteArrival(userId, postId, op) ==
  LET call == [IdleCall EXCEPT !.op = op, !.userId = userId, !.target = postId,
                               !.storedBefore = getUserVoteOnPost(userId, postId)]
  IN IF postExists(postId) THEN [call EXCEPT !.pc = "readVote"]
     ELSE Respond(call, 404, 0)

castOrRemoveVoteBegin(c, userId, postId, op) ==
  /\ calls[c].pc = "idle"
  /\ calls' = [calls EXCEPT ![c] = castOrRemoveVoteArrival(userId, postId, op)]
  /\ UNCHANGED <<dbvars, lastCast, uivars>>

handleLikePost(c, userId, postId) ==
  castOrRemoveVoteBegin(c, userId, postId, "like")

handleDislikePost(c, userId, postId) ==
  castOrRemoveVoteBegin(c, userId, postId, "dislike")

castOrRemoveVoteRead(c) ==
  /\ calls[c].pc = "readVote"
  /\ LET rows == VoteRows(calls[c].userId, calls[c].target)
     IN \/ /\ rows = {}
           /\ calls' = [calls EXCEPT ![c].pc = "write", ![c].cur = {}]
        \/ \E r \in rows :
             calls' = [calls EXCEPT ![c].pc = "write", ![c].cur = {r.vote_type}]
  /\ UNCHANGED <<dbvars, lastCast, uivars>>

castOrRemoveVoteWrite(c) ==
  LET call == calls[c]
      u == call.userId
      p == call.target
      t == VoteTypeOf(call.op)
      ans(code, res) ==
        calls' = [calls EXCEPT ![c] = Respond(call, code, res)]
  IN /\ call.pc = "write"
     /\ IF call.cur # {}
        THEN IF call.cur = {t}
             THEN /\ likes' = LikesAfterRemove(u, p)
                  /\ ans(200, 0)
             ELSE /\ likes' = LikesAfterSwitch(u, p, t)
                  /\ ans(200, t)
        ELSE IF LikesInsertOk(u, p)
             THEN /\ likes' = LikesAfterInsert(u, p, t)
                  /\ ans(200, t)
             ELSE /\ likes' = likes
                  /\ ans(500, 0)
     /\ UNCHANGED <<users, userRows, posts, comments, follows, nextPostId, nextCommentId, now,
                    lastCast, uivars>>

\* ---- createPost / deletePost
handleCreatePost(c, userId, body) ==
  LET call == [IdleCall EXCEPT !.op = "createPost", !.userId = userId,
                               !.target = nextPostId, !.followsBefore = follows]
  IN /\ calls[c].pc = "idle"
     /\ nextPostId <= MaxPosts
     /\ IF ~HasField(body, "content") \/ body.content = <<>>
        THEN /\ calls' = [calls EXCEPT ![c] = Respond([call EXCEPT !.target = 0], 400, 0)]
             /\ UNCHANGED <<posts, nextPostId>>
        ELSE /\ PostsInsert(userId, body.content,
                            IF HasField(body, "imageUrl") THEN body.imageUrl ELSE Null)
             /\ calls' = [calls EXCEPT ![c] = Respond(call, 201, 0)]
     /\ UNCHANGED <<users, userRows, likes, comments, follows, nextCommentId, now, lastCast, uivars>>

handleDeletePost(c, userId, postId) ==
  /\ calls[c].pc = "idle"
  /\ LET call == [IdleCall EXCEPT !.op = "deletePost", !.userId = userId,
                                  !.target = postId,
                                  !.authorBefore = AuthorOf(postId)]
         gone == PostsOwnedBy(postId, userId)
     IN /\ PostsDeleteCascade(gone)
        /\ calls' = [calls EXCEPT ![c] =
              IF gone # {} THEN Respond(call, 204, 0)
              ELSE [call EXCEPT !.pc = "checkExists"]]
  /\ UNCHANGED <<users, userRows, follows, nextPostId, nextCommentId, now, lastCast, uivars>>

deletePostCheckExists(c) ==
  /\ calls[c].pc = "checkExists"
  /\ calls' = [calls EXCEPT ![c] =
        Respond(calls[c], OwnershipError(calls[c].target), 0)]
  /\ UNCHANGED <<dbvars, lastCast, uivars>>

\* ---- updatePost, one statement per step
\* dataToUpdate: the fields of updateData that are not undefined
PostsAfterUpdate(postId, userId, updateData) ==
  (posts \ PostsOwnedBy(postId, userId)) \cup
    {[r EXCEPT !.content = IF HasField(updateData, "content")
                           THEN updateData.content ELSE @,
               !.image_url = IF HasField(updateData, "imageUrl")
                             THEN updateData.imageUrl ELSE @] :
       r \in PostsOwnedBy(postId, userId)}

\* the service: with no field a lookup of the caller's post, else the UPDATE
updatePost(c, userId, postId, updateData) ==
  /\ calls[c].pc = "idle"
  /\ LET call == [IdleCall EXCEPT !.op = "updatePost", !.userId = userId,
                                  !.target = postId, !.body = updateData,
                                  !.authorBefore = AuthorOf(postId)]
     IN /\ posts' = PostsAfterUpdate(postId, userId, updateData)
        /\ calls' = [calls EXCEPT ![c] =
              IF PostsOwnedBy(postId, userId) # {}
              THEN [call EXCEPT !.pc = "fetchPost"]
              ELSE [call EXCEPT !.pc = "updateCheckExists"]]
  /\ UNCHANGED <<users, userRows, likes, comments, follows, nextPostId, nextCommentId, now,
                 lastCast, uivars>>

\* the controller: a body with neither field is answered 400 before the service
handleUpdatePost(c, userId, postId, body) ==
  IF ~HasField(body, "content") /\ ~HasField(body, "imageUrl")
  THEN /\ calls[c].pc = "idle"
       /\ calls' = [calls EXCEPT ![c] =
             Respond([IdleCall EXCEPT !.op = "updatePost", !.userId = userId,
                                      !.target = postId, !.body = body,
                                      !.authorBefore = AuthorOf(postId)], 400, 0)]
       /\ UNCHANGED <<dbvars, lastCast, uivars>>
  ELSE updatePost(c, userId, postId, body)

updatePostCheckExists(c) ==
  /\ calls[c].pc = "updateCheckExists"
  /\ calls' = [calls EXCEPT ![c] =
        Respond(calls[c], OwnershipError(calls[c].target), 0)]
  /\ UNCHANGED <<dbvars, lastCast, uivars>>

\* return findPostById(postId, userId)
updatePostFetch(c) ==
  /\ calls[c].pc = "fetchPost"
  /\ calls' = [calls EXCEPT ![c] =
        Respond(calls[c], IF PostExists(calls[c].target) THEN 200 ELSE 404, 0)]
  /\ UNCHANGED <<dbvars, lastCast, uivars>>

\* ---- table follows
FollowRows(followerId, followingId) ==
  {r \in follows : r.follower_id = followerId /\ r.following_id = followingId}

\* primary key (follower_id, following_id), foreign keys to users
FollowsInsertOk(followerId, followingId) ==
  /\ followerId \in users
  /\ followingId \in users
  /\ FollowRows(followerId, followingId) = {}

\* the guard comparing the wrong pair of ids
IsSelfFollow_Never(followerId, followingId) == FALSE

\* if (followerId === followingId)
IsSelfFollow(followerId, followingId) == followerId = followingId

\* the lookup of the edge finding nothing
existingFollow_Skipped(followerId, followingId) == {}

\* db(FOLLOWS_TABLE).where({ follower_id, following_id }).first("follower_id")
existingFollow(followerId, followingId) == FollowRows(followerId, followingId)

\* ---- followUser, one statement per step
handleFollowUser(c, followerId, followingId) ==
  /\ calls[c].pc = "idle"
  /\ LET call == [IdleCall EXCEPT !.op = "follow", !.userId = followerId,
                                  !.target = followingId, !.followsBefore = follows]
     IN calls' = [calls EXCEPT ![c] =
          IF IsSelfFollow(followerId, followingId) THEN Respond(call, 400, 0)
          ELSE IF followingId \notin users THEN Respond(call, 404, 0)
          ELSE [call EXCEPT !.pc = "checkFollow"]]
  /\ UNCHANGED <<dbvars, lastCast, uivars>>

followUserCheckExisting(c) ==
  /\ calls[c].pc = "checkFollow"
  /\ calls' = [calls EXCEPT ![c] =
        IF existingFollow(calls[c].userId, calls[c].target) # {}
        THEN Respond(calls[c], 409, 0)
        ELSE [calls[c] EXCEPT !.pc = "insertFollow"]]
  /\ UNCHANGED <<dbvars, lastCast, uivars>>

\* a rejected insert raises the driver's error, which handleFollowUser answers
\* with 500
followUserInsert(c) ==
  LET call == calls[c]
  IN /\ call.pc = "insertFollow"
     /\ IF FollowsInsertOk(call.userId, call.target)
        THEN /\ follows' = follows \cup
                  {[follower_id |-> call.userId, following_id |-> call.target,
                    created_at |-> now]}
             /\ calls' = [calls EXCEPT ![c] = Respond(call, 200, 0)]
        ELSE /\ follows' = follows
             /\ calls' = [calls EXCEPT ![c] = Respond(call, 500, 0)]
     /\ UNCHANGED <<users, userRows, posts, likes, comments, nextPostId, nextCommentId, now,
                    lastCast, uivars>>

\* ---- isFollowing
isFollowing(followerId, followingId) == FollowRows(followerId, followingId) # {}

\* the delete naming the two ids the wrong way round
UnfollowDeleted_Reversed(followerId, followingId) == FollowRows(followingId, followerId)

\* db(FOLLOWS_TABLE).where({ follower_id, following_id }).del()
UnfollowDeleted(followerId, followingId) == FollowRows(followerId, followingId)

\* ---- unfollowUser: one DELETE
handleUnfollowUser(c, followerId, followingId) ==
  /\ calls[c].pc = "idle"
  /\ LET call == [IdleCall EXCEPT !.op = "unfollow", !.userId = followerId,
                                  !.target = followingId, !.followsBefore = follows]
         gone == UnfollowDeleted(followerId, followingId)
     IN /\ follows' = follows \ gone
        /\ calls' = [calls EXCEPT ![c] =
              Respond(call, IF gone = {} THEN 404 ELSE 204, 0)]
  /\ UNCHANGED <<users, userRows, posts, likes, comments, nextPostId, nextCommentId, now,
                 lastCast, uivars>>

\* ---- query results
Min(a, b) == IF a <= b THEN a ELSE b

\* ORDER BY key DESC: every order the database may return, ties in any order
OrderByDesc(rows, column) ==
  {s \in [1..Cardinality(rows) -> rows] :
     /\ \A i, j \in DOMAIN s : i # j => s[i] # s[j]
     /\ \A i, j \in DOMAIN s : i < j => s[i][column] >= s[j][column]}

\* .limit(limit).offset(offset)
LimitOffset(s, limit, offset) == SubSeq(s, offset + 1, Min(Len(s), offset + limit))

\* a count(*) column as the driver returns it: a string of decimal digits
RECURSIVE CountToString(_)
CountToString(n) ==
  IF n < 10 THEN <<n>> ELSE Append(CountToString(n \div 10), n % 10)

RECURSIVE parseInt(_)
parseInt(str) ==
  IF Len(str) = 1 THEN str[1]
  ELSE 10 * parseInt(SubSeq(str, 1, Len(str) - 1)) + str[Len(str)]

Undefined == <<-1>>

\* row.name, undefined when the row has no such column
RowField(row, name) == IF name \in DOMAIN row THEN row[name] ELSE Undefined

\* value || dflt on strings
OrElse(value, dflt) == IF value = Undefined \/ value = <<>> THEN dflt ELSE value

\* ---- getFollowing
getFollowing(userId, limit, offset) ==
  {LimitOffset(s, limit, offset) :
     s \in OrderByDesc({r \in follows : r.follower_id = userId /\ r.following_id \in users},
                       "created_at")}

\* ---- getFeedForUser
\* the author filter left out of the posts query
FeedAuthorIds_Everyone(userId, followingUsers) == users

\* [userId, ...followingIds]
FeedAuthorIds(userId, followingUsers) ==
  {userId} \cup {followingUsers[i].following_id : i \in DOMAIN followingUsers}

\* the posts query ordered by created_at asc
feedPostRecords_OldestFirst(authorIds, limit, offset) ==
  LET rows == {r \in posts : r.user_id \in authorIds /\ r.user_id \in users}
  IN {LimitOffset(s, limit, offset) :
        s \in {t \in [1..Cardinality(rows) -> rows] :
                 /\ \A i, j \in DOMAIN t : i # j => t[i] # t[j]
                 /\ \A i, j \in DOMAIN t : i < j => t[i].created_at <= t[j].created_at}}

\* posts of the authors, orderBy created_at desc, limit, offset
feedPostRecords(authorIds, limit, offset) ==
  {LimitOffset(s, limit, offset) :
     s \in OrderByDesc({r \in posts : r.user_id \in authorIds /\ r.user_id \in users},
                       "created_at")}

\* select post_id, count(*) as count ... where vote_type = 1 group by post_id
likeCountsResult(postIds) ==
  {[post_id |-> p,
    count |-> CountToString(Cardinality({r \in likes : r.post_id = p /\ r.vote_type = 1}))] :
     p \in {q \in postIds : \E r \in likes : r.post_id = q /\ r.vote_type = 1}}

\* likeCountsMap.get(id) || 0, the map filled from row.likeCount
feedLikeCount(postIds, postId) ==
  LET rows == {row \in likeCountsResult(postIds) : row.post_id = postId}
  IN IF rows = {} THEN 0
     ELSE parseInt(OrElse(RowField(CHOOSE row \in rows : TRUE, "likeCount"), <<0>>))

\* select post_id, count(*) as commentCount ... group by post_id
commentCountsResult(postIds) ==
  {[post_id |-> p,
    commentCount |-> CountToString(Cardinality({r \in comments : r.post_id = p}))] :
     p \in {q \in postIds : \E r \in comments : r.post_id = q}}

\* commentCountsMap.get(id) || 0, the map filled from row.commentCount
feedCommentCount(postIds, postId) ==
  LET rows == {row \in commentCountsResult(postIds) : row.post_id = postId}
  IN IF rows = {} THEN 0
     ELSE parseInt(OrElse(RowField(CHOOSE row \in rows : TRUE, "commentCount"), <<0>>))

\* userVotesMap.get(id) || 0
feedUserVote(userId, postIds, postId) ==
  LET rows == {r \in likes : r.user_id = userId /\ r.post_id \in postIds
                              /\ r.post_id = postId}
  IN IF rows = {} THEN 0 ELSE (CHOOSE r \in rows : TRUE).vote_type

formattedFeed(userId, records) ==
  LET postIds == {records[i].id : i \in DOMAIN records}
  IN [i \in DOMAIN records |->
        [id |-> records[i].id,
         authorId |-> records[i].user_id,
         createdAt |-> records[i].created_at,
         likeCount |-> feedLikeCount(postIds, records[i].id),
         commentCount |-> feedCommentCount(postIds, records[i].id),
         currentUserVote |-> feedUserVote(userId, postIds, records[i].id)]]

\* every page the call can return in the current database state
getFeedForUser(userId, limit, offset) ==
  UNION {{formattedFeed(userId, records) :
            records \in feedPostRecords(FeedAuthorIds(userId, followingUsers),
                                        limit, offset)} :
           followingUsers \in getFollowing(userId, FollowingLimit, 0)}

handleGetFeed(c, userId, limit, offset) ==
  /\ calls[c].pc = "idle"
  /\ \E feed \in getFeedForUser(userId, limit, offset) :
       calls' = [calls EXCEPT ![c] =
          Respond([IdleCall EXCEPT !.op = "feed", !.userId = userId,
                                   !.cur = {<<limit, offset>>}, !.body = feed,
                                   !.followsBefore = follows], 200, 0)]
  /\ UNCHANGED <<dbvars, lastCast, uivars>>

\* ---- read paths of postService
Requesters == {0} \cup users  \* currentUserId; 0 stands for undefined (anonymous)

\* .count({ count: "*" }).first() and parseInt(result?.count || "0")
getCommentCount(postId) ==
  LET result == [count |-> CountToString(Cardinality({r \in comments : r.post_id = postId}))]
  IN parseInt(OrElse(RowField(result, "count"), <<0>>))

\* the outputs of findPostById: none when the post is missing (NotFoundError)
findPostById(postId, currentUserId) ==
  {[id |-> r.id, authorId |-> r.user_id, createdAt |-> r.created_at,
    likeCount |-> getVoteCounts(postId).likeCount,
    commentCount |-> getCommentCount(postId),
    currentUserVote |-> getUserVoteOnPost(currentUserId, postId)] :
     r \in {q \in posts : q.id = postId /\ q.user_id \in users}}

\* map.get(postId) || 0 of a map filled with parseInt(row[column] || "0")
CountOf(rows, postId, column) ==
  LET matching == {row \in rows : row.post_id = postId}
  IN IF matching = {} THEN 0
     ELSE parseInt(OrElse(RowField(CHOOSE row \in matching : TRUE, column), <<0>>))

\* select post_id, count(*) as count from comments ... group by post_id
commentCountsAsCount(postIds) ==
  {[post_id |-> p,
    count |-> CountToString(Cardinality({r \in comments : r.post_id = p}))] :
     p \in {q \in postIds : \E r \in comments : r.post_id = q}}

\* userVotesMap.get(id) || 0, the map left empty without a currentUserId
batchUserVote(currentUserId, postIds, postId) ==
  IF currentUserId = 0 THEN 0 ELSE feedUserVote(currentUserId, postIds, postId)

\* the like counts map filled from a column the query does not return
batchLikeCount_WrongColumn(postIds, postId) ==
  CountOf(likeCountsResult(postIds), postId, "likeCount")

\* likeCountsMap.get(id) || 0, the map filled from row.count
batchLikeCount(postIds, postId) ==
  CountOf(likeCountsResult(postIds), postId, "count")

\* findAllPosts: the page of posts enriched by its own batched queries
allPostsOutputs(records, currentUserId) ==
  LET postIds == {records[i].id : i \in DOMAIN records}
  IN [i \in DOMAIN records |->
        [id |-> records[i].id,
         authorId |-> records[i].user_id,
         createdAt |-> records[i].created_at,
         likeCount |-> batchLikeCount(postIds, records[i].id),
         commentCount |-> CountOf(commentCountsResult(postIds), records[i].id,
                                  "commentCount"),
         currentUserVote |-> batchUserVote(currentUserId, postIds, records[i].id)]]

findAllPosts(limit, offset, currentUserId) ==
  {allPostsOutputs(LimitOffset(s, limit, offset), currentUserId) :
     s \in OrderByDesc(posts, "created_at")}

addCountsAndVotesToPosts(postRecords, currentUserId) ==
  LET postIds == {postRecords[i].id : i \in DOMAIN postRecords}
  IN [i \in DOMAIN postRecords |->
        [id |-> postRecords[i].id,
         authorId |-> postRecords[i].user_id,
         createdAt |-> postRecords[i].created_at,
         likeCount |-> batchLikeCount(postIds, postRecords[i].id),
         commentCount |-> CountOf(commentCountsAsCount(postIds), postRecords[i].id,
                                  "count"),
         currentUserVote |-> batchUserVote(currentUserId, postIds, postRecords[i].id)]]

findPostsByUserId(targetUserId, limit, offset, currentUserId) ==
  {addCountsAndVotesToPosts(LimitOffset(s, limit, offset), currentUserId) :
     s \in OrderByDesc({r \in posts : r.user_id = targetUserId /\ r.user_id \in users},
                       "created_at")}

\* the answers of handleGetAllPosts
handleGetAllPostsAnswers(currentUserId, limit, offset) ==
  {Respond([IdleCall EXCEPT !.op = "allPosts", !.userId = currentUserId,
                            !.cur = {<<limit, offset>>}, !.body = page], 200, 0) :
     page \in findAllPosts(limit, offset, currentUserId)}

handleGetAllPosts(c, currentUserId, limit, offset) ==
  /\ calls[c].pc = "idle"
  /\ \E answer \in handleGetAllPostsAnswers(currentUserId, limit, offset) :
       calls' = [calls EXCEPT ![c] = answer]
  /\ UNCHANGED <<dbvars, lastCast, uivars>>

handleGetUserPosts(c, currentUserId, targetUserId, limit, offset) ==
  /\ calls[c].pc = "idle"
  /\ LET call == [IdleCall EXCEPT !.op = "userPosts", !.userId = currentUserId,
                                  !.target = targetUserId, !.cur = {<<limit, offset>>}]
     IN IF targetUserId \notin users
        THEN calls' = [calls EXCEPT ![c] = Respond(call, 404, 0)]
        ELSE \E page \in findPostsByUserId(targetUserId, limit, offset, currentUserId) :
               calls' = [calls EXCEPT ![c] = Respond([call EXCEPT !.body = page], 200, 0)]
  /\ UNCHANGED <<dbvars, lastCast, uivars>>

\* the answers of handleGetPostById
handleGetPostByIdAnswers(currentUserId, postId) ==
  LET call == [IdleCall EXCEPT !.op = "getPost", !.userId = currentUserId,
                               !.target = postId]
  IN IF findPostById(postId, currentUserId) = {}
     THEN {Respond(call, 404, 0)}
     ELSE {Respond([call EXCEPT !.body = <<post>>], 200, 0) :
             post \in findPostById(postId, currentUserId)}

handleGetPostById(c, currentUserId, postId) ==
  /\ calls[c].pc = "idle"
  /\ \E answer \in handleGetPostByIdAnswers(currentUserId, postId) :
       calls' = [calls EXCEPT ![c] = answer]
  /\ UNCHANGED <<dbvars, lastCast, uivars>>

\* ---- createComment
RECURSIVE TrimStart(_)
TrimStart(str) ==
  IF str # <<>> /\ Head(str) = " " THEN TrimStart(Tail(str)) ELSE str

RECURSIVE TrimEnd(_)
TrimEnd(str) ==
  IF str # <<>> /\ str[Len(str)] = " "
  THEN TrimEnd(SubSeq(str, 1, Len(str) - 1)) ELSE str

\* the content taken as it was sent
trim_Nothing(str) == str

\* String.prototype.trim
trim(str) == TrimEnd(TrimStart(str))

handleAddComment(c, userId, postId, content) ==
  /\ calls[c].pc = "idle"
  /\ nextCommentId <= MaxComments
  /\ LET call == [IdleCall EXCEPT !.op = "comment", !.userId = userId,
                                  !.target = postId, !.cur = {content},
                                  !.body = trim(content)]
     IN calls' = [calls EXCEPT ![c] =
          IF content = <<>> \/ Len(trim(content)) = 0 THEN Respond(call, 400, 0)
          ELSE IF trim(call.body) = <<>> THEN Respond(call, 400, 0)
          ELSE IF ~PostExists(postId) THEN Respond(call, 404, 0)
          ELSE [call EXCEPT !.pc = "insertComment"]]
  /\ UNCHANGED <<dbvars, lastCast, uivars>>

\* foreign keys to posts and users
CommentsInsertOk(userId, postId) == userId \in users /\ PostExists(postId)

\* the insert replacing the post's earlier comments
CommentsAfterInsert_Replace(row) ==
  {r \in comments : r.post_id # row.post_id} \cup {row}

\* db(COMMENTS_TABLE).insert({ user_id, post_id, content })
CommentsAfterInsert(row) == comments \cup {row}

createCommentInsert(c) ==
  LET call == calls[c]
  IN /\ call.pc = "insertComment"
     /\ IF CommentsInsertOk(call.userId, call.target)
        THEN /\ comments' = CommentsAfterInsert(
                  [id |-> nextCommentId, post_id |-> call.target,
                   user_id |-> call.userId, content |-> trim(call.body)])
             /\ nextCommentId' = nextCommentId + 1
             /\ calls' = [calls EXCEPT ![c] =
                   [call EXCEPT !.pc = "fetchComment", !.result = nextCommentId]]
        ELSE /\ UNCHANGED <<comments, nextCommentId>>
             /\ calls' = [calls EXCEPT ![c] = Respond(call, 500, 0)]
     /\ UNCHANGED <<users, userRows, posts, likes, follows, nextPostId, now, lastCast, uivars>>

\* getCommentWithAuthor
createCommentFetch(c) ==
  /\ calls[c].pc = "fetchComment"
  /\ calls' = [calls EXCEPT ![c] =
        Respond(calls[c],
                IF \E r \in comments : r.id = calls[c].result THEN 201 ELSE 404,
                calls[c].result)]
  /\ UNCHANGED <<dbvars, lastCast, uivars>>

\* ---- the controllers' catch blocks
\* an error is [type, message]; a message is the sequence of its words, and
\* message.includes(word) is taken word by word (no message here holds one of
\* the words looked for inside a longer word)
TypedErrors == {"NotFoundError", "ConflictError", "BadRequestError",
                "ForbiddenError", "UnauthorizedError"}

\* the statusCode each class of errors.ts passes to CustomError
StatusOf(type) ==
  CASE type = "NotFoundError" -> 404
    [] type = "ConflictError" -> 409
    [] type = "BadRequestError" -> 400
    [] type = "UnauthorizedError" -> 401
    [] type = "ForbiddenError" -> 403

Handlers ==
  {"handleCreatePost", "handleGetAllPosts", "handleGetPostById", "handleUpdatePost",
   "handleDeletePost", "handleLikePost", "handleDislikePost", "handleAddComment",
   "handleGetComments", "handleFollowUser", "handleUnfollowUser",
   "handleGetFollowing", "handleGetFollowers", "getMe", "updateMe",
   "getUserProfile", "handleGetUserPosts", "handleGetUploadPresignedUrl",
   "handleGetFeed", "registerUser", "loginUser"}

\* every catch block testing for NotFoundError alone
CaughtTypes_OnlyNotFound(handler) == {"NotFoundError"}

\* the classes the handler's catch block tests with instanceof
CaughtTypes(handler) ==
  CASE handler = "handleGetPostById" -> {"NotFoundError"}
    [] handler \in {"handleUpdatePost", "handleDeletePost"} ->
         {"NotFoundError", "ForbiddenError"}
    [] handler = "handleLikePost" ->
         {"NotFoundError", "BadRequestError", "ConflictError", "UnauthorizedError"}
    [] handler = "handleDislikePost" ->
         {"NotFoundError", "BadRequestError", "UnauthorizedError"}
    [] handler = "handleAddComment" -> {"BadRequestError", "NotFoundError"}
    [] handler = "handleGetComments" -> {"NotFoundError"}
    [] handler = "handleFollowUser" ->
         {"BadRequestError", "NotFoundError", "ConflictError"}
    [] handler = "handleUnfollowUser" -> {"NotFoundError"}
    [] handler \in {"getMe", "getUserProfile"} -> {"NotFoundError"}
    [] handler = "updateMe" -> {"ConflictError", "NotFoundError"}
    [] handler = "handleGetUserPosts" -> {"NotFoundError", "BadRequestError"}
    [] OTHER -> {}

\* the typed errors thrown inside the handler's try block, by the handler or by
\* the service it calls (createPost ends with findPostById)
RaisedTypes(handler) ==
  CASE handler \in {"handleCreatePost", "handleGetPostById", "handleLikePost",
                    "handleUnfollowUser"} -> {"NotFoundError"}
    [] handler \in {"handleUpdatePost", "handleDeletePost"} ->
         {"NotFoundError", "ForbiddenError"}
    [] handler = "handleDislikePost" ->
         {"NotFoundError", "UnauthorizedError", "BadRequestError"}
    [] handler \in {"handleAddComment", "handleGetUserPosts"} ->
         {"BadRequestError", "NotFoundError"}
    [] handler = "handleFollowUser" ->
         {"BadRequestError", "NotFoundError", "ConflictError"}
    [] OTHER -> {}

\* messages of the errors the database driver raises
DriverMessages ==
  {<<"duplicate", "key", "value", "violates", "unique", "constraint">>,
   <<"violates", "foreign", "key", "constraint">>,
   <<"violates", "not-null", "constraint">>,
   <<"connect", "ECONNREFUSED">>,
   <<"Knex", ":", "Timeout", "acquiring", "a", "connection">>}

RequiredMessage ==
  <<"Email", ",", "username", ",", "and", "password", "are", "required", ".">>
PasswordMessage ==
  <<"Password", "must", "be", "at", "least", "6", "characters", "long", ".">>
UsernameMessage ==
  <<"Username", "must", "be", "between", "3", "and", "30", "characters", "long", ".">>
EmailMessage == <<"Invalid", "email", "format", ".">>
ValidationMessages == {RequiredMessage, PasswordMessage, UsernameMessage, EmailMessage}

ConfigurationMessage == <<"Authentication", "configuration", "error", ".">>

UploadMessages ==
  {<<"Server", "configuration", "error", "for", "file", "uploads", ".">>,
   <<"Could", "not", "generate", "upload", "URL", ".">>}

\* the plain Errors thrown inside the handler's try block
RaisedMessages(handler) ==
  CASE handler = "registerUser" ->
         ValidationMessages \cup {ConfigurationMessage} \cup DriverMessages
    [] handler = "loginUser" -> {ConfigurationMessage} \cup DriverMessages
    [] handler = "handleGetUploadPresignedUrl" -> UploadMessages
    [] handler = "handleAddComment" ->
         {<<"Failed", "to", "create", "comment", "or", "retrieve", "its", "ID", ".">>}
           \cup DriverMessages
    [] OTHER -> DriverMessages

TypedMessage(type) == <<type, "message">>

RaisedErrors(handler) ==
  {[type |-> t, message |-> TypedMessage(t)] : t \in RaisedTypes(handler)}
    \cup {[type |-> "Error", message |-> m] : m \in RaisedMessages(handler)}

\* error.message.includes(word)
includes(message, word) == \E i \in DOMAIN message : message[i] = word

\* the literal message of the handler's last else branch
GenericMessage(handler) == <<handler, "generic", "message">>

\* the status and message the handler's catch block answers the error with
CatchResponse(handler, error) ==
  IF handler = "registerUser"
  THEN IF \/ includes(error.message, "required")
          \/ includes(error.message, "Invalid")
          \/ includes(error.message, "length")
       THEN [status |-> 400, message |-> error.message]
       ELSE [status |-> 500, message |-> GenericMessage(handler)]
  ELSE IF handler = "handleGetUploadPresignedUrl"
  THEN IF error.message \in UploadMessages
       THEN [status |-> 500, message |-> error.message]
       ELSE [status |-> 500, message |-> GenericMessage(handler)]
  ELSE IF error.type \in CaughtTypes(handler)
  THEN [status |-> StatusOf(error.type),
        message |-> IF handler = "updateMe" /\ error.type = "ConflictError"
                    THEN <<"Username", "already", "taken", ".">>
                    ELSE error.message]
  ELSE [status |-> 500, message |-> GenericMessage(handler)]

\* a request to the handler fails with the error, which its catch block answers
handleError(c, handler, error) ==
  /\ calls[c].pc = "idle"
  /\ calls' = [calls EXCEPT ![c] =
        Respond([IdleCall EXCEPT !.op = "error", !.cur = {<<handler, error>>},
                                 !.body = CatchResponse(handler, error).message],
                CatchResponse(handler, error).status, 0)]
  /\ UNCHANGED <<dbvars, lastCast, uivars>>

\* ---- the protect middleware
\* a claim of a token's payload: the typeof of its value and the value written out
NoClaim == [type |-> "undefined", value |-> "undefined"]
UserIdClaims ==
  {NoClaim, [type |-> "number", value |-> "1"], [type |-> "number", value |-> "2"],
   [type |-> "string", value |-> "1"]}
RoleClaims ==
  {NoClaim, [type |-> "string", value |-> "user"],
   [type |-> "string", value |-> "admin"], [type |-> "number", value |-> "1"]}
Payloads == [userId : UserIdClaims, role : RoleClaims]

\* a token: how jwt.verify finds it under the server's secret, and its payload
Tokens ==
  [verify : {"ok", "JsonWebTokenError", "TokenExpiredError"}, payload : Payloads]

\* req.headers.authorization: undefined, or a scheme followed by a token or by
\* nothing
NoToken == [verify |-> "none", payload |-> [userId |-> NoClaim, role |-> NoClaim]]
AuthHeaders ==
  {[scheme |-> "none", token |-> NoToken]}
    \cup [scheme : {"Bearer", "Basic"}, token : Tokens \cup {NoToken}]

\* process.env.JWT_SECRET
JwtSecrets == {"defined", "undefined"}

ProtectedRoutes ==
  {"handleCreatePost", "handleUpdatePost", "handleDeletePost", "handleLikePost",
   "handleDislikePost", "handleAddComment", "getMe", "updateMe",
   "handleFollowUser", "handleUnfollowUser", "handleGetUploadPresignedUrl",
   "handleGetFeed"}

\* the token taken from the header: authHeader.split(" ")[1] of a Bearer header
ExtractToken(authHeader) ==
  IF authHeader.scheme = "Bearer" /\ authHeader.token.verify # "none"
  THEN {authHeader.token}
  ELSE {}

\* a payload check that does not look at the type of userId
ValidPayload_AnyUserId(decoded) == decoded.role.type = "string"

\* typeof decoded.userId === "number" && typeof decoded.role === "string"
ValidPayload(decoded) ==
  /\ decoded.userId.type = "number"
  /\ decoded.role.type = "string"

\* protect: answers 401 or 500, or sets req.user (kept in body) and calls next()
protect(c, route, authHeader, jwtSecret) ==
  /\ calls[c].pc = "idle"
  /\ LET call == [IdleCall EXCEPT !.op = "protect",
                                  !.cur = {<<route, authHeader, jwtSecret>>}]
         token == ExtractToken(authHeader)
     IN calls' = [calls EXCEPT ![c] =
          IF token = {}
          THEN Respond([call EXCEPT !.body = <<"Not authorized, no token provided.">>],
                       401, 0)
          ELSE IF jwtSecret = "undefined"
          THEN Respond([call EXCEPT !.body = <<"Server configuration error.">>], 500, 0)
          ELSE LET t == CHOOSE x \in token : TRUE
               IN IF t.verify # "ok"
                  THEN Respond([call EXCEPT !.body =
                                  <<"Not authorized, token failed verification.">>],
                               401, 0)
                  ELSE IF ~ValidPayload(t.payload)
                  THEN Respond([call EXCEPT !.body = <<"Not authorized.">>], 401, 0)
                  ELSE [call EXCEPT !.pc = "next",
                                    !.body = [userId |-> t.payload.userId,
                                              role |-> t.payload.role]]]
  /\ UNCHANGED <<dbvars, lastCast, uivars>>

\* the statuses a route's handler answers with once it runs
HandlerStatuses == {200, 404}

\* the route's handler runs after next() and answers the request
routeHandler(c) ==
  /\ calls[c].pc = "next"
  /\ \E status \in HandlerStatuses :
       calls' = [calls EXCEPT ![c] = Respond(calls[c], status, 1)]
  /\ UNCHANGED <<dbvars, lastCast, uivars>>

\* ---- the public read routes: router.get("/", handleGetAllPosts) and
\* router.get("/:postId", handleGetPostById) run no middleware before the
\* handler, so req.user is undefined whatever Authorization header came
\* req.user?.userId in the handler of a route: the token's user after protect,
\* undefined (0) on a route without it
reqUserId(handler, bearer) == IF handler \in ProtectedRoutes THEN bearer ELSE 0

getAllPostsRoute(c, bearer, limit, offset) ==
  /\ calls[c].pc = "idle"
  /\ \E answer \in handleGetAllPostsAnswers(reqUserId("handleGetAllPosts", bearer),
                                             limit, offset) :
       calls' = [calls EXCEPT ![c] = [answer EXCEPT !.bearer = bearer]]
  /\ UNCHANGED <<dbvars, lastCast, uivars>>

getPostByIdRoute(c, bearer, postId) ==
  /\ calls[c].pc = "idle"
  /\ \E answer \in handleGetPostByIdAnswers(reqUserId("handleGetPostById", bearer),
                                             postId) :
       calls' = [calls EXCEPT ![c] = [answer EXCEPT !.bearer = bearer]]
  /\ UNCHANGED <<dbvars, lastCast, uivars>>

\* ---- registerUser's input validation
\* a string of the given length
StringOfLength(n) == [i \in 1..n |-> "x"]

\* req.body of a registration: strings as sequences of characters, a missing
\* field as the empty string (both are falsy)
RegisterEmails ==
  {<<>>, <<"a", "@", "b", ".", "c">>, <<"a", "b">>, <<"a", "@", "b">>,
   <<"@", "b", ".", "c">>, <<"a", "@", " ", ".", "c">>}
RegisterInputs ==
  [email : RegisterEmails,
   username : {StringOfLength(n) : n \in {0, 2, 3, 30, 31}},
   password : {StringOfLength(n) : n \in {0, 5, 6}}]

\* /\S+@\S+\.\S+/.test(email)
EmailFormatTest(email) ==
  \E i \in DOMAIN email, j \in DOMAIN email :
    /\ email[i] = "@"
    /\ i > 1 /\ email[i - 1] # " "
    /\ j > i + 1 /\ email[j] = "."
    /\ \A k \in (i + 1)..(j - 1) : email[k] # " "
    /\ j < Len(email) /\ email[j + 1] # " "

\* the message of the Error validateRegisterInput throws, none for valid input
validateRegisterInput(data) ==
  IF data.email = <<>> \/ data.username = <<>> \/ data.password = <<>>
  THEN {RequiredMessage}
  ELSE IF Len(data.password) < 6 THEN {PasswordMessage}
  ELSE IF Len(data.username) < 3 \/ Len(data.username) > 30 THEN {UsernameMessage}
  ELSE IF ~EmailFormatTest(data.email) THEN {EmailMessage}
  ELSE {}

\* POST /auth/register: validation first, its Error answered by the catch block;
\* valid input goes on to the lookup, email and username naming its strings
registerUserRequest(c, data, email, username) ==
  IF validateRegisterInput(data) # {}
  THEN /\ calls[c].pc = "idle"
       /\ LET error == [type |-> "Error",
                        message |-> CHOOSE m \in validateRegisterInput(data) : TRUE]
              answer == CatchResponse("registerUser", error)
          IN calls' = [calls EXCEPT ![c] =
               Respond([IdleCall EXCEPT !.op = "validateRegisterInput",
                                        !.cur = {data}, !.body = answer.message],
                       answer.status, 0)]
       /\ UNCHANGED <<dbvars, lastCast, uivars>>
  ELSE registerUser(c, email, username)

\* ---- loginUser
\* req.body of a login: emailOrUsername names a string as emails and usernames
\* do, passwords are named by numbers, and 0 is a missing or empty field
LoginNames == {0} \cup Names
Passwords == 0..(MaxUsers + 1)

\* the password whose hash the row stores: user n registered with password n
PasswordOf(row) == row.id

\* .where("email", emailOrUsername).orWhere("username", emailOrUsername)
findUserForLogin(emailOrUsername) ==
  {r \in userRows : r.email = emailOrUsername \/ r.username = emailOrUsername}

\* a comparison that accepts every password
bcryptCompare_AcceptAll(password, row) == TRUE

\* bcrypt.compare(password, userRecord.password_hash)
bcryptCompare(password, row) == password = PasswordOf(row)

InvalidCredentials == [message |-> <<"Invalid credentials.">>]

\* the response of loginUser once findUserForLogin has returned found (no row,
\* or the first row of the query)
loginAnswer(call, found, password, jwtSecret) ==
  IF found = {}
  THEN Respond([call EXCEPT !.body = InvalidCredentials], 401, 0)
  ELSE LET userRecord == CHOOSE r \in found : TRUE
       IN IF ~bcryptCompare(password, userRecord)
          THEN Respond([call EXCEPT !.body = InvalidCredentials], 401, 0)
          ELSE IF jwtSecret = "undefined"
          THEN Respond([call EXCEPT !.body =
                          [message |-> <<"An error occurred during login.">>]], 500, 0)
          ELSE Respond([call EXCEPT !.body =
                          [message |-> <<"Login successful!">>,
                           user |-> userRecord.id,
                           token |-> [userId |-> userRecord.id]]],
                       200, userRecord.id)

loginUser(c, emailOrUsername, password, jwtSecret) ==
  /\ calls[c].pc = "idle"
  /\ LET call == [IdleCall EXCEPT !.op = "login",
                                  !.cur = {<<emailOrUsername, password, jwtSecret>>}]
         matching == findUserForLogin(emailOrUsername)
     IN IF emailOrUsername = 0 \/ password = 0
        THEN calls' = [calls EXCEPT ![c] =
               Respond([call EXCEPT !.body =
                          [message |-> <<"Email/username and password are required.">>]],
                       400, 0)]
        ELSE IF matching = {}
        THEN calls' = [calls EXCEPT ![c] = loginAnswer(call, {}, password, jwtSecret)]
        ELSE \E first \in matching :
               calls' = [calls EXCEPT ![c] =
                 loginAnswer(call, {first}, password, jwtSecret)]
  /\ UNCHANGED <<dbvars, lastCast, uivars>>

\* ---- the client: AuthProvider and ProtectedRoute
\* null is the empty set, a value v the set {v}
\* the tokens the server signs: the user and the time of issue
ClientTokens == [userId : 1..(MaxUsers + MaxRegistrations), iat : 0..MaxTime]

\* useState's initial value
InitialAuthState ==
  [token |-> {}, user |-> {}, isAuthenticated |-> FALSE, isLoading |-> TRUE]
LoggedOut ==
  [token |-> {}, user |-> {}, isAuthenticated |-> FALSE, isLoading |-> FALSE]
LoggedIn(token, user) ==
  [token |-> {token}, user |-> {user}, isAuthenticated |-> TRUE, isLoading |-> FALSE]

JSONstringify(value) == <<"json", value>>
JSONparse(string) == string[2]

\* logout leaving the stored token behind
StorageAfterLogout_KeepToken == [localStorage EXCEPT !.user = {}]

\* removeItem(TOKEN_STORAGE_KEY); removeItem(USER_STORAGE_KEY)
StorageAfterLogout == [token |-> {}, user |-> {}]

\* the effect run once after the first render: the session of localStorage
mountEffect ==
  /\ authState.isLoading
  /\ authState' =
       IF localStorage.token # {} /\ localStorage.user # {}
       THEN LoggedIn(CHOOSE t \in localStorage.token : TRUE,
                     JSONparse(CHOOSE u \in localStorage.user : TRUE))
       ELSE [authState EXCEPT !.isLoading = FALSE]
  /\ UNCHANGED <<dbvars, calls, lastCast, localStorage, card, feedPage>>

\* login(token, user), called by a page the provider renders; setItem can throw
\* (a full storage): failing = 1 at the token, 2 at the user, 0 not at all
login(token, user, failing) ==
  /\ ~authState.isLoading
  /\ localStorage' =
       [token |-> IF failing = 1 THEN localStorage.token ELSE {token},
        user |-> IF failing = 0 THEN {JSONstringify(user)} ELSE localStorage.user]
  /\ authState' = LoggedIn(token, user)
  /\ UNCHANGED <<dbvars, calls, lastCast, card, feedPage>>

logout ==
  /\ ~authState.isLoading
  /\ localStorage' = StorageAfterLogout
  /\ authState' = LoggedOut
  /\ UNCHANGED <<dbvars, calls, lastCast, card, feedPage>>

\* what ProtectedRoute returns
ProtectedRoute ==
  IF authState.isLoading THEN "Checking authentication..."
  ELSE IF ~authState.isAuthenticated THEN "Navigate to /login"
  ELSE "children"

\* ---- the client: FeedPage
\* the page size of FeedPage, 10 in the source, scaled to the bound on posts
FEED_LIMIT == 1

\* the page before its first render; seen and unchanged are history: the posts
\* and follows the first fetch read, and whether every later fetch read the same
NoFeedPage ==
  [mounted |-> FALSE, user |-> 0, posts |-> <<>>, offset |-> 0, hasMore |-> TRUE,
   seen |-> [posts |-> {}, follows |-> {}], unchanged |-> TRUE]

\* ---- the client: one PostCard and its handleVote
NoCard == [mounted |-> FALSE, post |-> 0, currentUserVote |-> 0,
           currentLikeCount |-> 0, isVoting |-> FALSE]

\* the page is loaded again: every component starts over, localStorage stays
reload ==
  /\ authState' = InitialAuthState
  /\ card' = NoCard
  /\ feedPage' = NoFeedPage
  /\ UNCHANGED <<dbvars, calls, lastCast, localStorage>>

\* useState(post.currentUserVote ?? 0), useState(post.likeCount) of a post given
\* to the card
mountCard(postId, currentUserVote, likeCount) ==
  /\ ~authState.isLoading
  /\ ~card.mounted
  /\ card' = [mounted |-> TRUE, post |-> postId, currentUserVote |-> currentUserVote,
              currentLikeCount |-> likeCount, isVoting |-> FALSE]
  /\ UNCHANGED <<dbvars, calls, lastCast, authState, localStorage, feedPage>>

\* the guard without the isVoting test
canVote_IgnoreIsVoting == authState.isAuthenticated

\* !(isVoting || !isAuthenticated)
canVote == ~card.isVoting /\ authState.isAuthenticated

\* previousVote === voteType ? 0 : voteType
newVote(previousVote, voteType) == IF previousVote = voteType THEN 0 ELSE voteType

\* the optimistic count adding a like at every click
newLikeCount_AlwaysAdd(previousVote, previousLikeCount, voteType) ==
  previousLikeCount + 1

newLikeCount(previousVote, previousLikeCount, voteType) ==
  IF newVote(previousVote, voteType) = 1
  THEN IF previousVote # 1 THEN previousLikeCount + 1 ELSE previousLikeCount
  ELSE IF previousVote = 1 THEN previousLikeCount - 1
  ELSE previousLikeCount

\* a click on the like (1) or dislike (-1) button, up to the await: the
\* optimistic update, and the request of the signed-in user reaching the server
handleVote(c, voteType) ==
  /\ card.mounted
  /\ calls[c].pc = "idle"
  /\ IF ~canVote
     THEN UNCHANGED <<calls, card>>
     ELSE /\ card' = [card EXCEPT
                !.isVoting = TRUE,
                !.currentUserVote = newVote(card.currentUserVote, voteType),
                !.currentLikeCount = newLikeCount(card.currentUserVote,
                                                  card.currentLikeCount, voteType)]
          /\ \E user \in authState.user :
               calls' = [calls EXCEPT ![c] =
                 [castOrRemoveVoteArrival(user, card.post,
                                          IF voteType = 1 THEN "like" ELSE "dislike")
                    EXCEPT !.origin = "card",
                           !.previousVote = card.currentUserVote,
                           !.previousLikeCount = card.currentLikeCount,
                           !.shownAtClick = <<card.currentUserVote,
                                              card.currentLikeCount>>,
                           !.likesAtClick = {r \in likes : r.post_id = card.post}]]
  /\ UNCHANGED <<dbvars, lastCast, authState, localStorage, feedPage>>

\* the request settles: the await returns, or throws into the catch block
handleVoteSettles(c) ==
  /\ calls[c].origin = "card"
  /\ calls[c].pc = "done"
  /\ card' = IF calls[c].status = 200
             THEN [card EXCEPT !.isVoting = FALSE]
             ELSE [card EXCEPT !.currentUserVote = calls[c].previousVote,
                               !.currentLikeCount = calls[c].previousLikeCount,
                               !.isVoting = FALSE]
  /\ calls' = [calls EXCEPT ![c] = IdleCall]
  /\ UNCHANGED <<dbvars, lastCast, authState, localStorage, feedPage>>

\* currentOffset === 0 ? newPosts : [...prevPosts, ...newPosts]
PostsAfterFetch(prevPosts, currentOffset, newPosts) ==
  IF currentOffset = 0 THEN newPosts ELSE prevPosts \o newPosts

\* fetchFeed(currentOffset) of the signed-in user userId: the request, the
\* server's answer and the state set from it
fetchFeed(userId, currentOffset) ==
  /\ \E newPosts \in getFeedForUser(userId, FEED_LIMIT, currentOffset) :
       feedPage' =
         [mounted |-> TRUE, user |-> userId,
          posts |-> PostsAfterFetch(feedPage.posts, currentOffset, newPosts),
          offset |-> currentOffset + Len(newPosts),
          hasMore |-> Len(newPosts) = FEED_LIMIT,
          seen |-> IF currentOffset = 0
                   THEN [posts |-> posts, follows |-> follows] ELSE feedPage.seen,
          unchanged |-> \/ currentOffset = 0
                        \/ /\ feedPage.unchanged
                           /\ feedPage.seen = [posts |-> posts, follows |-> follows]]
  /\ UNCHANGED <<dbvars, calls, lastCast, authState, localStorage, card>>

\* the effect of the first render: fetchFeed(0)
mountFeedPage(userId) ==
  /\ ~feedPage.mounted
  /\ fetchFeed(userId, 0)

\* the Load More button
handleLoadMore ==
  /\ feedPage.mounted
  /\ IF feedPage.hasMore
     THEN fetchFeed(feedPage.user, feedPage.offset)
     ELSE UNCHANGED vars

\* the page is left
unmountFeedPage ==
  /\ feedPage.mounted
  /\ feedPage' = NoFeedPage
  /\ UNCHANGED <<dbvars, calls, lastCast, authState, localStorage, card>>

\* ---- the database clock advances
Tick ==
  /\ now < MaxTime
  /\ now' = now + 1
  /\ UNCHANGED <<users, userRows, posts, likes, comments, follows, nextPostId, nextCommentId,
                 calls, lastCast, uivars>>

\* ---- the response is sent and the request's task ends
Retire(c) ==
  /\ calls[c].pc = "done"
  /\ calls' = [calls EXCEPT ![c] = IdleCall]
  /\ UNCHANGED <<dbvars, lastCast, uivars>>

IsVote(call) == call.op \in {"like", "dislike"}

\* the same, recording an answered cast in the history (a removed post has none)
RetireLogged(c) ==
  LET call == calls[c]
  IN /\ call.pc = "done"
     /\ calls' = [calls EXCEPT ![c] = IdleCall]
     /\ lastCast' =
          IF IsVote(call) /\ call.status = 200
          THEN [lastCast EXCEPT ![<<call.userId, call.target>>] =
                  <<VoteTypeOf(call.op), call.result>>]
          ELSE IF call.op = "deletePost" /\ call.status = 204
          THEN [k \in DOMAIN lastCast |->
                  IF k[2] = call.target THEN <<>> ELSE lastCast[k]]
          ELSE lastCast
     /\ UNCHANGED <<dbvars, uivars>>

\* ---- initial state: the registered users, every other table empty
Init ==
  /\ users = 1..MaxUsers
  /\ userRows = {[id |-> u, email |-> u, username |-> u] : u \in 1..MaxUsers}
  /\ posts = {}
  /\ likes = {}
  /\ comments = {}
  /\ follows = {}
  /\ nextPostId = 1
  /\ nextCommentId = 1
  /\ now = 0
  /\ calls = [c \in CallIds |-> IdleCall]
  /\ lastCast = [k \in users \X PostIds |-> <<>>]
  /\ authState = InitialAuthState
  /\ localStorage = [token |-> {}, user |-> {}]
  /\ card = NoCard
  /\ feedPage = NoFeedPage

VoteOps(c) ==
  \/ \E u \in users, p \in PostIds : handleDeletePost(c, u, p)
  \/ deletePostCheckExists(c)
  \/ \E u \in users, p \in PostIds : handleLikePost(c, u, p)
  \/ \E u \in users, p \in PostIds : handleDislikePost(c, u, p)
  \/ castOrRemoveVoteRead(c)
  \/ castOrRemoveVoteWrite(c)

\* concurrent vote and post requests
NextVote ==
  \E c \in CallIds :
    \/ VoteOps(c)
    \/ \E u \in users : nextPostId <= MaxVotePosts /\ handleCreatePost(c, u, NewPost)
    \/ Retire(c)
SpecVote == Init /\ [][NextVote]_vars

\* one vote or post request at a time
NextVoteSeq ==
  \E c \in SeqCallIds :
    \/ VoteOps(c)
    \/ \E u \in users : nextPostId <= MaxVotePosts /\ handleCreatePost(c, u, NewPost)
    \/ Retire(c)
SpecVoteSeq == Init /\ [][NextVoteSeq]_vars

\* the same, keeping the history of answered casts
NextVoteHist ==
  \E c \in SeqCallIds :
    \/ VoteOps(c)
    \/ \E u \in users : nextPostId <= MaxVotePosts /\ handleCreatePost(c, u, NewPost)
    \/ RetireLogged(c)
SpecVoteHist == Init /\ [][NextVoteHist]_vars

FollowOps(c) ==
  \/ \E u \in users, f \in UserIds : handleFollowUser(c, u, f)
  \/ followUserCheckExisting(c)
  \/ followUserInsert(c)
  \/ \E u \in users, f \in UserIds : handleUnfollowUser(c, u, f)

\* concurrent follow and unfollow requests
NextFollow ==
  \E c \in CallIds :
    \/ FollowOps(c)
    \/ Retire(c)
SpecFollow == Init /\ [][NextFollow]_vars

\* follow and unfollow requests one at a time, as time passes
NextFollowSeq ==
  \/ Tick
  \/ \E c \in SeqCallIds :
       \/ FollowOps(c)
       \/ Retire(c)
SpecFollowSeq == Init /\ [][NextFollowSeq]_vars

\* one request at a time: posts, follows and the feed, as time passes
NextFeed ==
  \/ Tick
  \/ \E c \in SeqCallIds :
       \/ \E u \in users : handleCreatePost(c, u, NewPost)
       \/ FollowOps(c)
       \/ \E u \in users, l \in Limits, o \in Offsets : handleGetFeed(c, u, l, o)
       \/ Retire(c)
SpecFeed == Init /\ [][NextFeed]_vars

\* one FeedPage paging through the feed while posts and follows are made
NextPaging ==
  \/ Tick
  \/ \E u \in users : mountFeedPage(u)
  \/ handleLoadMore
  \/ unmountFeedPage
  \/ \E c \in SeqCallIds :
       \/ \E u \in users : handleCreatePost(c, u, NewPost)
       \/ FollowOps(c)
       \/ Retire(c)
SpecPaging == Init /\ [][NextPaging]_vars

CommentOps(c) ==
  \/ \E u \in users, p \in PostIds, t \in Contents : handleAddComment(c, u, p, t)
  \/ createCommentInsert(c)
  \/ createCommentFetch(c)

\* one request at a time: posts, follows, votes, comments and the feed
NextEngage ==
  \E c \in SeqCallIds :
    \/ \E u \in users : nextPostId <= MaxVotePosts /\ handleCreatePost(c, u, NewPost)
    \/ \E u \in users, f \in users : handleFollowUser(c, u, f)
    \/ followUserCheckExisting(c)
    \/ followUserInsert(c)
    \/ \E u \in users, p \in PostIds : handleLikePost(c, u, p)
    \/ \E u \in users, p \in PostIds : handleDislikePost(c, u, p)
    \/ castOrRemoveVoteRead(c)
    \/ castOrRemoveVoteWrite(c)
    \/ CommentOps(c)
    \/ \E u \in users : handleGetFeed(c, u, DefaultLimit, 0)
    \/ Retire(c)
SpecEngage == Init /\ [][NextEngage]_vars

PostOps(c) ==
  \/ \E u \in users, b \in CreateBodies : handleCreatePost(c, u, b)
  \/ \E u \in users, p \in PostIds, b \in UpdateBodies : handleUpdatePost(c, u, p, b)
  \/ \E u \in users, p \in PostIds, b \in UpdateBodies : updatePost(c, u, p, b)
  \/ updatePostCheckExists(c)
  \/ updatePostFetch(c)
  \/ \E u \in users, p \in PostIds : handleDeletePost(c, u, p)
  \/ deletePostCheckExists(c)

\* one request at a time: posts created, updated and deleted
NextPost ==
  \E c \in SeqCallIds :
    \/ PostOps(c)
    \/ Retire(c)
SpecPost == Init /\ [][NextPost]_vars

ReadOps(c) ==
  \/ \E u \in Requesters, l \in Limits, o \in Offsets : handleGetAllPosts(c, u, l, o)
  \/ \E u \in Requesters, t \in UserIds : handleGetUserPosts(c, u, t, DefaultLimit, 0)
  \/ \E u \in Requesters, p \in PostIds : handleGetPostById(c, u, p)

\* one request at a time: posts, votes and comments written, posts read
NextRead ==
  \E c \in SeqCallIds :
    \/ \E u \in users : handleCreatePost(c, u, NewPost)
    \/ \E u \in users, p \in PostIds : handleLikePost(c, u, p)
    \/ \E u \in users, p \in PostIds : handleDislikePost(c, u, p)
    \/ castOrRemoveVoteRead(c)
    \/ castOrRemoveVoteWrite(c)
    \/ CommentOps(c)
    \/ ReadOps(c)
    \/ Retire(c)
SpecRead == Init /\ [][NextRead]_vars

\* concurrent registrations
NextRegister ==
  \E c \in CallIds :
    \/ \E email \in Names, username \in Names : registerUser(c, email, username)
    \/ createUser(c)
    \/ Retire(c)
SpecRegister == Init /\ [][NextRegister]_vars

\* one failing request at a time, to any handler
NextCatch ==
  \E c \in SeqCallIds :
    \/ \E handler \in Handlers :
         \E error \in RaisedErrors(handler) : handleError(c, handler, error)
    \/ Retire(c)
SpecCatch == Init /\ [][NextCatch]_vars

\* one request at a time to a route guarded by protect
NextProtect ==
  \E c \in SeqCallIds :
    \/ \E route \in ProtectedRoutes, authHeader \in AuthHeaders,
          jwtSecret \in JwtSecrets : protect(c, route, authHeader, jwtSecret)
    \/ routeHandler(c)
    \/ Retire(c)
SpecProtect == Init /\ [][NextProtect]_vars

\* concurrent delete, vote and comment requests on posts created meanwhile
NextCascade ==
  \E c \in CallIds :
    \/ VoteOps(c)
    \/ \E u \in users, p \in PostIds : handleAddComment(c, u, p, NewPost.content)
    \/ createCommentInsert(c)
    \/ createCommentFetch(c)
    \/ \E u \in users : nextPostId <= MaxVotePosts /\ handleCreatePost(c, u, NewPost)
    \/ Retire(c)
SpecCascade == Init /\ [][NextCascade]_vars

\* one request at a time: posts written and deleted, votes cast, comments added
NextComment ==
  \E c \in SeqCallIds :
    \/ \E u \in users : handleCreatePost(c, u, NewPost)
    \/ \E u \in users, p \in PostIds : handleUpdatePost(c, u, p, NewPost)
    \/ updatePostCheckExists(c)
    \/ updatePostFetch(c)
    \/ VoteOps(c)
    \/ CommentOps(c)
    \/ Retire(c)
SpecComment == Init /\ [][NextComment]_vars

\* one request at a time: posts created, votes cast, the public routes read
\* with and without a bearer token
NextPublicRead ==
  \E c \in SeqCallIds :
    \/ \E u \in users : handleCreatePost(c, u, NewPost)
    \/ \E u \in users, p \in PostIds : handleLikePost(c, u, p)
    \/ \E u \in users, p \in PostIds : handleDislikePost(c, u, p)
    \/ castOrRemoveVoteRead(c)
    \/ castOrRemoveVoteWrite(c)
    \/ \E b \in Requesters, l \in Limits, o \in Offsets : getAllPostsRoute(c, b, l, o)
    \/ \E b \in Requesters, p \in PostIds : getPostByIdRoute(c, b, p)
    \/ Retire(c)
SpecPublicRead == Init /\ [][NextPublicRead]_vars

\* one registration at a time, with valid and invalid input
NextValidate ==
  \E c \in SeqCallIds :
    \/ \E data \in RegisterInputs, email \in Names, username \in Names :
         registerUserRequest(c, data, email, username)
    \/ createUser(c)
    \/ Retire(c)
SpecValidate == Init /\ [][NextValidate]_vars

\* concurrent logins and registrations
NextLogin ==
  \E c \in CallIds :
    \/ \E emailOrUsername \in LoginNames, password \in Passwords,
          jwtSecret \in JwtSecrets : loginUser(c, emailOrUsername, password, jwtSecret)
    \/ \E email \in Names, username \in Names : registerUser(c, email, username)
    \/ createUser(c)
    \/ Retire(c)
SpecLogin == Init /\ [][NextLogin]_vars

\* the client's session: sign-in, sign-out and page loads
NextAuth ==
  \/ mountEffect
  \/ \E token \in ClientTokens, failing \in 0..2 : login(token, token.userId, failing)
  \/ logout
  \/ reload
SpecAuth == Init /\ [][NextAuth]_vars

\* a client, signed in as user 1 or signed out, that shows one PostCard, and
\* from then on the other users' requests on the card's post, concurrently
NextCard ==
  \/ mountEffect
  \/ \E token \in ClientTokens :
       /\ ~authState.isAuthenticated /\ ~card.mounted
       /\ token.userId = 1 /\ token.iat = now
       /\ login(token, token.userId, 0)
  \/ \E p \in PostIds, v \in {-1, 0, 1}, n \in 0..1 :
       PostExists(p) /\ mountCard(p, v, n)
  \/ \E c \in CallIds :
       \/ \E voteType \in {1, -1} : handleVote(c, voteType)
       \/ handleVoteSettles(c)
       \/ \E u \in users : nextPostId <= MaxVotePosts /\ handleCreatePost(c, u, NewPost)
       \/ \E u \in users \ authState.user :
            card.mounted /\ handleLikePost(c, u, card.post)
       \/ \E u \in users \ authState.user :
            card.mounted /\ handleDislikePost(c, u, card.post)
       \/ castOrRemoveVoteRead(c)
       \/ castOrRemoveVoteWrite(c)
       \/ \E u \in users : card.mounted /\ handleDeletePost(c, u, card.post)
       \/ deletePostCheckExists(c)
       \/ calls[c].origin = "none" /\ Retire(c)
SpecCard == Init /\ [][NextCard]_vars

\* ======================= claims =======================

VoteCalls == {c \in CallIds : IsVote(calls[c])}
AnsweredVotes == {c \in VoteCalls : calls[c].pc = "done"}
RowsOf(c) == VoteRows(calls[c].userId, calls[c].target)
CastType(c) == VoteTypeOf(calls[c].op)
LastCastOf(c) == lastCast[<<calls[c].userId, calls[c].target>>]

\* C1 (as amended): a cast whose type equals the caller's stored vote answers 200
\* with status 0 and leaves no vote row for the pair; so a cast of type t that
\* answered t, followed by the same user's next cast on the post being again of
\* type t, ends with status 0 and no vote row.
C1_ToggleOff ==
  \A c \in AnsweredVotes :
    (calls[c].storedBefore = CastType(c) \/ LastCastOf(c) = <<CastType(c), CastType(c)>>)
      => /\ calls[c].status = 200
         /\ calls[c].result = 0
         /\ RowsOf(c) = {}

C1_Witness ==
  \E c \in AnsweredVotes :
    /\ calls[c].op = "like"
    /\ LastCastOf(c) = <<1, 1>>
    /\ calls[c].storedBefore = 1
    /\ calls[c].result = 0

\* C1 as stated: any two consecutive casts of the same type by a user on a post
\* end with status 0 and no vote row, whatever the first one answered.
C1_Original ==
  \A c \in AnsweredVotes :
    (LastCastOf(c) # <<>> /\ LastCastOf(c)[1] = CastType(c))
      => /\ calls[c].result = 0
         /\ RowsOf(c) = {}

\* C2: a cast of the type opposite to the caller's stored vote answers the new
\* type, the stored vote_type becomes the new type, and the pair's row is
\* present in every state of the call and after its answer.
C2_SwitchInPlace ==
  \A c \in VoteCalls :
    calls[c].storedBefore = -CastType(c)
      => /\ RowsOf(c) # {}
         /\ calls[c].pc = "done" =>
              /\ calls[c].status = 200
              /\ calls[c].result = CastType(c)
              /\ \A r \in RowsOf(c) : r.vote_type = CastType(c)

C2_Witness ==
  \E c \in AnsweredVotes :
    /\ calls[c].storedBefore = 1
    /\ calls[c].op = "dislike"
    /\ calls[c].result = -1

\* C3: a cast on an existing post, run alone, answers a status in {1, -1, 0}
\* equal to what getUserVoteOnPost reports right after it; a cast on a missing
\* post answers 404; and every stored vote_type is 1 or -1.
C3_StatusIsStoredVote ==
  /\ \A r \in likes : r.vote_type \in {1, -1}
  /\ \A c \in AnsweredVotes :
       IF PostExists(calls[c].target)
       THEN /\ calls[c].status = 200
            /\ calls[c].result \in {1, -1, 0}
            /\ calls[c].result = getUserVoteOnPost(calls[c].userId, calls[c].target)
       ELSE calls[c].status = 404

C3_Witness ==
  \E c \in AnsweredVotes :
    /\ calls[c].op = "dislike"
    /\ calls[c].status = 200
    /\ calls[c].result = -1
    /\ calls[c].storedBefore = 0

\* C4: the likes table holds at most one row per (user, post) pair, under any
\* interleaving of concurrent likePost and dislikePost calls.
C4_OneVoteRowPerPair ==
  \A r1 \in likes, r2 \in likes :
    (r1.user_id = r2.user_id /\ r1.post_id = r2.post_id) => r1 = r2

\* two concurrent casts of one user on one post both found no row; the second
\* insert was rejected
C4_Witness ==
  \E c \in AnsweredVotes, d \in AnsweredVotes :
    /\ c # d
    /\ calls[c].userId = calls[d].userId
    /\ calls[c].target = calls[d].target
    /\ calls[c].cur = {} /\ calls[d].cur = {}
    /\ calls[c].status = 200
    /\ calls[d].status = 500

Answered(op) == {c \in CallIds : calls[c].op = op /\ calls[c].pc = "done"}
FeedLimit(c) == (CHOOSE a \in calls[c].cur : TRUE)[1]
FeedOffset(c) == (CHOOSE a \in calls[c].cur : TRUE)[2]
FeedIds(c) == {calls[c].body[i].id : i \in DOMAIN calls[c].body}
LikeRowsOf(postId) == {r \in likes : r.post_id = postId /\ r.vote_type = 1}
CommentRowsOf(postId) == {r \in comments : r.post_id = postId}

\* C5: every post of a page returned by getFeedForUser(U) carries likeCount = the
\* number of vote_type = 1 rows of the post, commentCount = the number of its
\* comments, and currentUserVote = U's stored vote or 0.
C5_FeedCounts ==
  \A c \in Answered("feed") :
    \A i \in DOMAIN calls[c].body :
      LET post == calls[c].body[i]
      IN /\ post.likeCount = Cardinality(LikeRowsOf(post.id))
         /\ post.commentCount = Cardinality(CommentRowsOf(post.id))
         /\ post.currentUserVote = getUserVoteOnPost(calls[c].userId, post.id)

\* C6: every post of a feed of U is authored by U or by a user U follows at the
\* time of the call; a successful unfollowUser(U, V) removes the edge, and no
\* request other than followUser adds one, so no later feed of U shows a post
\* of V until U follows V again.
C6_FeedAuthorsFollowed ==
  /\ \A c \in Answered("feed") :
       \A i \in DOMAIN calls[c].body :
         \/ calls[c].body[i].authorId = calls[c].userId
         \/ FollowRows(calls[c].userId, calls[c].body[i].authorId) # {}
  /\ \A c \in Answered("unfollow") :
       calls[c].status = 204 => FollowRows(calls[c].userId, calls[c].target) = {}
  /\ \A c \in Answered("feed") \cup Answered("createPost") \cup Answered("unfollow") :
       follows \subseteq calls[c].followsBefore

C6_Witness ==
  \E c \in Answered("feed") :
    \E i \in DOMAIN calls[c].body :
      /\ calls[c].body[i].authorId # calls[c].userId
      /\ FollowRows(calls[c].userId, calls[c].body[i].authorId) # {}

OwnPosts(userId) == {r \in posts : r.user_id = userId}
FollowsNobody(userId) == \A r \in follows : r.follower_id # userId

\* C7 (as amended): for a user who follows nobody and has authored P posts,
\* getFeedForUser with offset 0 and a limit of at least P returns exactly those
\* P posts and no others, newest first by creation time.
C7_OwnPostsNewestFirst ==
  \A c \in Answered("feed") :
    (/\ FollowsNobody(calls[c].userId)
     /\ FeedOffset(c) = 0
     /\ Cardinality(OwnPosts(calls[c].userId)) <= FeedLimit(c))
      => /\ FeedIds(c) = {r.id : r \in OwnPosts(calls[c].userId)}
         /\ Len(calls[c].body) = Cardinality(OwnPosts(calls[c].userId))
         /\ \A i, j \in DOMAIN calls[c].body :
              i < j => calls[c].body[i].createdAt >= calls[c].body[j].createdAt

C7_Witness ==
  \E c \in Answered("feed") :
    /\ FollowsNobody(calls[c].userId)
    /\ Len(calls[c].body) = 2
    /\ calls[c].body[1].createdAt > calls[c].body[2].createdAt

\* C7 as stated: whatever pagination the call is given, the feed of a user who
\* follows nobody holds exactly the P posts the user authored.
C7_Original ==
  \A c \in Answered("feed") :
    FollowsNobody(calls[c].userId)
      => /\ FeedIds(c) = {r.id : r \in OwnPosts(calls[c].userId)}
         /\ Len(calls[c].body) = Cardinality(OwnPosts(calls[c].userId))

EdgeBefore(c) ==
  {r \in calls[c].followsBefore :
     r.follower_id = calls[c].userId /\ r.following_id = calls[c].target}

\* C8: for A # B with B existing, followUser(A, B) arriving when the edge is
\* present (a successful followUser leaves it present, and only unfollowUser
\* removes it) answers 409 and leaves the follows table unchanged;
\* unfollowUser(A, B) arriving when the edge is absent answers 404 and leaves
\* the table unchanged.
C8_ConflictAndNotFound ==
  /\ \A c \in Answered("follow") :
       /\ (calls[c].userId # calls[c].target /\ calls[c].target \in users
           /\ EdgeBefore(c) # {})
            => (calls[c].status = 409 /\ follows = calls[c].followsBefore)
       /\ calls[c].status = 200 => FollowRows(calls[c].userId, calls[c].target) # {}
       /\ calls[c].followsBefore \subseteq follows
  /\ \A c \in Answered("unfollow") :
       /\ EdgeBefore(c) = {}
            => (calls[c].status = 404 /\ follows = calls[c].followsBefore)
       /\ calls[c].followsBefore \ follows \subseteq EdgeBefore(c)
  /\ \A c \in Answered("feed") \cup Answered("createPost") :
       calls[c].followsBefore \subseteq follows

C8_Witness ==
  /\ \E c \in Answered("follow") : calls[c].status = 409 /\ EdgeBefore(c) # {}
  /\ \E r \in follows : TRUE

\* C9: a followUser(A, B) request for existing B # A that creates no edge, the
\* concurrent one included whose insert the primary key rejects, is answered
\* 409 and by no other error.
C9_RejectedFollowIsConflict ==
  \A c \in Answered("follow") :
    (calls[c].userId # calls[c].target /\ calls[c].target \in users)
      => calls[c].status \in {200, 409}

\* C10: the follows table holds no edge from a user to itself, and
\* followUser(A, A) is answered 400.
C10_NoSelfFollow ==
  /\ \A r \in follows : r.follower_id # r.following_id
  /\ \A c \in Answered("follow") :
       calls[c].userId = calls[c].target => calls[c].status = 400

C10_Witness ==
  \E c \in Answered("follow") :
    /\ calls[c].userId = calls[c].target
    /\ calls[c].status = 400
    /\ follows # {}

\* updatePost and deletePost calls that reached the service and were answered
AnsweredPostWrites ==
  {c \in Answered("updatePost") \cup Answered("deletePost") : calls[c].status # 400}

\* C11: updatePost and deletePost by a user who is not the author of the
\* existing target post are answered 403, with or without a field in the
\* update; on a post id that does not exist they are answered 404.
C11_ForbiddenOrNotFound ==
  \A c \in AnsweredPostWrites :
    /\ calls[c].authorBefore \notin {0, calls[c].userId} => calls[c].status = 403
    /\ calls[c].authorBefore = 0 => calls[c].status = 404

C11_Witness ==
  \E c \in Answered("updatePost") :
    /\ calls[c].body = EmptyBody
    /\ calls[c].authorBefore \notin {0, calls[c].userId}
    /\ calls[c].status = 403

PostStepBy(c) ==
  /\ calls[c].pc = "idle"
  /\ calls'[c].op \in {"updatePost", "deletePost"}

\* C12: in every step of any sequence of createPost, updatePost and deletePost
\* calls, a post whose content or image URL changes, or which is removed, is
\* the target of an updatePost or deletePost statement run by its author, and
\* the author recorded for a post id stays the same.
C12_OnlyAuthorMutates ==
  [][\A p \in posts :
       /\ p \notin posts' =>
            \E c \in CallIds : /\ PostStepBy(c)
                               /\ calls'[c].userId = p.user_id
                               /\ calls'[c].target = p.id
       /\ \A q \in posts' : q.id = p.id => q.user_id = p.user_id]_vars

C12_Witness ==
  \E c \in Answered("updatePost") :
    /\ calls[c].status = 200
    /\ \E p \in posts : /\ p.id = calls[c].target
                        /\ p.user_id = calls[c].userId
                        /\ p.content = <<"b">>
                        /\ p.image_url = <<"u">>
    /\ \E q \in posts : q.user_id # calls[c].userId

NoCallInFlight == \A c \in CallIds : calls[c].pc = "idle"
\* the users whose last answered cast on the post was of the type and stored it
HoldersOf(postId, voteType) ==
  {u \in users : lastCast[<<u, postId>>] = <<voteType, voteType>>}

\* C13: between requests, getVoteCounts(post) returns likeCount = the number of
\* users whose cast stored a like and dislikeCount = the number of users whose
\* cast stored a dislike; so after N users each cast one like and M others one
\* dislike on a post without votes it returns N and M, 0 and 0 included.
C13_VoteCounts ==
  NoCallInFlight =>
    \A p \in PostIds :
      getVoteCounts(p) =
        [likeCount |-> Cardinality(HoldersOf(p, 1)),
         dislikeCount |-> Cardinality(HoldersOf(p, -1))]

C13_Witness ==
  /\ NoCallInFlight
  /\ \E p \in PostIds :
       /\ HoldersOf(p, 1) # {}
       /\ HoldersOf(p, -1) # {}
       /\ getVoteCounts(p) = [likeCount |-> 1, dislikeCount |-> 1]

BatchedReads ==
  {c \in Answered("allPosts") \cup Answered("userPosts") : calls[c].status = 200}

\* C14: every post of a page returned by findAllPosts or findPostsByUserId
\* carries the likeCount, commentCount and currentUserVote that findPostById
\* reports for the post and the same requester (anonymous included): the number
\* of +1 vote rows, the number of comment rows, the requester's stored vote or 0.
C14_BatchedEqualsPerPost ==
  /\ \A c \in BatchedReads :
       \A i \in DOMAIN calls[c].body :
         LET post == calls[c].body[i]
         IN /\ findPostById(post.id, calls[c].userId) # {}
            /\ \A single \in findPostById(post.id, calls[c].userId) :
                 /\ post.likeCount = single.likeCount
                 /\ post.commentCount = single.commentCount
                 /\ post.currentUserVote = single.currentUserVote
  /\ \A c \in Answered("getPost") :
       \A i \in DOMAIN calls[c].body :
         LET post == calls[c].body[i]
         IN /\ post.likeCount = Cardinality(LikeRowsOf(post.id))
            /\ post.commentCount = Cardinality(CommentRowsOf(post.id))
            /\ post.currentUserVote = getUserVoteOnPost(calls[c].userId, post.id)

C14_Witness ==
  \E c \in Answered("allPosts") :
    /\ Len(calls[c].body) = 2
    /\ \E i \in DOMAIN calls[c].body :
         /\ calls[c].body[i].likeCount = 1
         /\ calls[c].body[i].commentCount = 1
         /\ calls[c].body[i].currentUserVote = -1

IsBlank(str) == \A i \in DOMAIN str : str[i] = " "
CommentArrives(c) == calls[c].pc = "idle" /\ calls'[c].op = "comment"

\* C15: a createComment request whose content is empty after trimming is
\* answered 400, one on a post that does not exist is answered 404, and in both
\* cases the comments table, hence every post's comment count, is unchanged.
C15_RejectedCommentInsertsNothing ==
  [][\A c \in CallIds :
       CommentArrives(c) =>
         LET call == calls'[c]
             blank == \A content \in call.cur : IsBlank(content)
         IN /\ blank => call.pc = "done" /\ call.status = 400
            /\ (~blank /\ ~PostExists(call.target)) =>
                 call.pc = "done" /\ call.status = 404
            /\ (blank \/ ~PostExists(call.target)) =>
                 /\ comments' = comments
                 /\ \A p \in PostIds : getCommentCount(p)' = getCommentCount(p)]_vars

C15_Witness ==
  \E c \in Answered("comment") :
    /\ calls[c].cur = {<<" ">>}
    /\ calls[c].status = 400
    /\ PostExists(calls[c].target)
    /\ comments = {}

VoteArrives(c) == calls[c].pc = "idle" /\ IsVote(calls'[c])

\* C16: a likePost or dislikePost request on a post id that does not exist is
\* answered 404 and leaves the likes table unchanged, whatever votes the user
\* holds on other posts.
C16_VoteOnMissingPost ==
  [][\A c \in CallIds :
       (VoteArrives(c) /\ \A r \in posts : r.id # calls'[c].target) =>
         /\ calls'[c].pc = "done"
         /\ calls'[c].status = 404
         /\ likes' = likes]_vars

C16_Witness ==
  \E c \in AnsweredVotes :
    /\ calls[c].status = 404
    /\ \A r \in posts : r.id # calls[c].target
    /\ \E r \in likes : r.user_id = calls[c].userId /\ r.post_id # calls[c].target

\* no two users share an email or a username
UniqueEmailAndUsername ==
  \A r1 \in userRows, r2 \in userRows :
    (r1.email = r2.email \/ r1.username = r2.username) => r1 = r2

\* C17: every registerUser request that creates no user because its email or
\* username is taken, found by the lookup or rejected by the unique constraint
\* of a concurrent registration, is answered 409; and no two users share an
\* email or a username.
C17_DuplicateRegistrationIs409 ==
  /\ UniqueEmailAndUsername
  /\ \A c \in Answered("register") : calls[c].status # 201 => calls[c].status = 409

HandlerOf(c) == (CHOOSE a \in calls[c].cur : TRUE)[1]
ErrorOf(c) == (CHOOSE a \in calls[c].cur : TRUE)[2]
TypeStatus ==
  [NotFoundError |-> 404, ConflictError |-> 409, BadRequestError |-> 400,
   ForbiddenError |-> 403, UnauthorizedError |-> 401]
IsTyped(error) == error.type \in DOMAIN TypeStatus
AnsweredGenerically(c) ==
  /\ calls[c].status = 500
  /\ calls[c].body = GenericMessage(HandlerOf(c))
  /\ calls[c].body # ErrorOf(c).message

\* C18 (as amended): in every controller but handleCreatePost each typed error
\* raised inside the handler is answered with its type's status, and
\* handleCreatePost answers it with the generic 500; every other error is
\* answered with 500 and the handler's fixed generic message, except that
\* registerUser answers an error whose message contains "required", "Invalid"
\* or "length" with 400 and the error's message, and handleGetUploadPresignedUrl
\* answers its two upload errors with 500 and the error's message.
C18_ErrorMapping ==
  \A c \in Answered("error") :
    LET handler == HandlerOf(c)
        error == ErrorOf(c)
    IN IF IsTyped(error)
       THEN IF handler = "handleCreatePost" THEN AnsweredGenerically(c)
            ELSE calls[c].status = TypeStatus[error.type]
       ELSE IF /\ handler = "registerUser"
               /\ \E i \in DOMAIN error.message :
                    error.message[i] \in {"required", "Invalid", "length"}
            THEN calls[c].status = 400 /\ calls[c].body = error.message
            ELSE IF /\ handler = "handleGetUploadPresignedUrl"
                    /\ error.message \in UploadMessages
            THEN calls[c].status = 500 /\ calls[c].body = error.message
            ELSE AnsweredGenerically(c)

C18_Witness ==
  \E c \in Answered("error") :
    /\ HandlerOf(c) = "handleUpdatePost"
    /\ ErrorOf(c).type = "ForbiddenError"
    /\ calls[c].status = 403

\* C18 as stated: every typed error is answered with its type's status and
\* every other error with 500 and a generic message, in every controller.
C18_Original ==
  \A c \in Answered("error") :
    IF IsTyped(ErrorOf(c))
    THEN calls[c].status = TypeStatus[ErrorOf(c).type]
    ELSE AnsweredGenerically(c)

ProtectCalls == {c \in CallIds : calls[c].op = "protect"}
HeaderOf(c) == (CHOOSE a \in calls[c].cur : TRUE)[2]
SecretOf(c) == (CHOOSE a \in calls[c].cur : TRUE)[3]
HandlerRan(c) == calls[c].pc = "next" \/ calls[c].result = 1
NoBearerToken(h) == h.scheme # "Bearer" \/ h.token.verify = "none"
FailsVerification(h) ==
  h.scheme = "Bearer" /\ h.token.verify \in {"JsonWebTokenError", "TokenExpiredError"}
LacksClaims(h) ==
  /\ h.scheme = "Bearer"
  /\ h.token.verify = "ok"
  /\ h.token.payload.userId.type # "number" \/ h.token.payload.role.type # "string"
HandlerRanAsTokenUser(c) ==
  HandlerRan(c) =>
    /\ HeaderOf(c).scheme = "Bearer"
    /\ HeaderOf(c).token.verify = "ok"
    /\ HeaderOf(c).token.payload.userId.type = "number"
    /\ HeaderOf(c).token.payload.role.type = "string"
    /\ calls[c].body = [userId |-> HeaderOf(c).token.payload.userId,
                        role |-> HeaderOf(c).token.payload.role]

\* C19 (as amended): for every route guarded by protect, a request with no Bearer
\* token is answered 401; a request with a token that fails verification, or
\* whose verified payload lacks a numeric userId or a string role, is answered
\* 401, or 500 when the server has no JWT_SECRET; in each case the route's
\* handler never runs. The handler runs only with req.user set to the userId and
\* role of the verified token.
C19_ProtectGuards ==
  \A c \in ProtectCalls :
    /\ NoBearerToken(HeaderOf(c)) => calls[c].status = 401 /\ ~HandlerRan(c)
    /\ FailsVerification(HeaderOf(c)) \/ LacksClaims(HeaderOf(c)) =>
         /\ ~HandlerRan(c)
         /\ calls[c].status = IF SecretOf(c) = "defined" THEN 401 ELSE 500
    /\ HandlerRanAsTokenUser(c)

C19_Witness ==
  \E c \in ProtectCalls :
    /\ SecretOf(c) = "defined"
    /\ HeaderOf(c).scheme = "Bearer"
    /\ HeaderOf(c).token.verify = "ok"
    /\ HeaderOf(c).token.payload.userId.type = "string"
    /\ HeaderOf(c).token.payload.role.type = "string"
    /\ calls[c].pc = "done"
    /\ calls[c].status = 401

\* C19 as stated: each of the three kinds of request is answered 401 and the
\* handler never runs; the handler runs only as the verified token's user.
C19_Original ==
  \A c \in ProtectCalls :
    /\ \/ NoBearerToken(HeaderOf(c))
       \/ FailsVerification(HeaderOf(c))
       \/ LacksClaims(HeaderOf(c))
       => calls[c].status = 401 /\ ~HandlerRan(c)
    /\ HandlerRanAsTokenUser(c)

RowsReferringTo(postId) == {r \in likes \cup comments : r.post_id = postId}

\* C20: in every reachable state, under any interleaving of deletePost with
\* likePost, dislikePost and createComment, every vote row and every comment row
\* refers to an existing post, and a post whose deletePost has answered 204 has
\* no vote row and no comment row, then or later.
C20_RowsReferToPosts ==
  /\ \A r \in likes \cup comments : \E p \in posts : p.id = r.post_id
  /\ \A c \in Answered("deletePost") :
       calls[c].status = 204 => RowsReferringTo(calls[c].target) = {}

C20_Witness ==
  \E c \in Answered("deletePost"), d \in Answered("comment") :
    /\ calls[c].status = 204
    /\ calls[d].target = calls[c].target
    /\ calls[d].status = 500
    /\ RowsReferringTo(calls[c].target) = {}

IsTrimmed(str) == str # <<>> /\ str[1] # " " /\ str[Len(str)] # " "
CommentInserted(c) ==
  calls[c].pc = "insertComment" /\ calls'[c].pc = "fetchComment"

\* C21: while a post exists, no operation removes or changes any of its
\* comments: in every step its set of comments only grows, by exactly one
\* comment with trimmed, non-empty content when a createComment inserts and by
\* nothing otherwise, and getCommentCount never decreases.
C21_CommentsAppendOnly ==
  [][\A p \in PostIds :
       (\E r \in posts : r.id = p) /\ (\E r \in posts' : r.id = p) =>
         LET before == {r \in comments : r.post_id = p}
             after == {r \in comments' : r.post_id = p}
             inserts == {c \in CallIds : CommentInserted(c) /\ calls[c].target = p}
         IN /\ before \subseteq after
            /\ Cardinality(after \ before) = Cardinality(inserts)
            /\ Cardinality(inserts) <= 1
            /\ \A r \in after \ before : IsTrimmed(r.content)
            /\ getCommentCount(p)' >= getCommentCount(p)]_vars

C21_Witness ==
  \E p \in posts :
    /\ Cardinality({r \in comments : r.post_id = p.id}) = 2
    /\ \E c \in Answered("comment") :
         /\ calls[c].target = p.id
         /\ calls[c].status = 201
         /\ calls[c].cur = {<<" ", "a", " ">>}

StoredVote(userId, postId) ==
  {r.vote_type : r \in {q \in likes : q.user_id = userId /\ q.post_id = postId}}
ReportsStoredVote(c, post) ==
  \A v \in StoredVote(calls[c].bearer, post.id) : post.currentUserVote = v

\* C22: a GET /posts/:postId or GET /posts request sent with a valid bearer
\* token by a user whose stored vote on a returned post is +1 or -1 reports that
\* vote as the post's currentUserVote.
C22_TokenUserSeesVote ==
  \A c \in Answered("getPost") \cup Answered("allPosts") :
    calls[c].bearer # 0 /\ calls[c].status = 200 =>
      \A i \in DOMAIN calls[c].body : ReportsStoredVote(c, calls[c].body[i])

Toggle(stored, voteType) == IF stored = voteType THEN 0 ELSE voteType
SameTargetVotes ==
  {pair \in AnsweredVotes \X AnsweredVotes :
     /\ pair[1] # pair[2]
     /\ calls[pair[1]].userId = calls[pair[2]].userId
     /\ calls[pair[1]].target = calls[pair[2]].target
     /\ \E r \in posts : r.id = calls[pair[1]].target
     /\ calls[pair[1]].status # 404
     /\ calls[pair[2]].status # 404}
InSequence(x, y) ==
  /\ calls[x].result = Toggle(calls[x].storedBefore, CastType(x))
  /\ calls[y].result = Toggle(calls[x].result, CastType(y))
  /\ getUserVoteOnPost(calls[y].userId, calls[y].target) = calls[y].result

\* C23: for concurrent likePost/dislikePost calls by the same user on the same
\* existing post, every call completes with a vote status rather than an error,
\* and the returned statuses together with the final stored vote equal those of
\* some sequential order of the same calls.
C23_ConcurrentVotesLinearize ==
  \A pair \in SameTargetVotes :
    /\ calls[pair[1]].status = 200
    /\ calls[pair[2]].status = 200
    /\ InSequence(pair[1], pair[2]) \/ InSequence(pair[2], pair[1])

RejectedArrives(c) ==
  calls[c].pc = "idle" /\ calls'[c].op = "validateRegisterInput"

\* C24: registerUser answers 400 with the validation message, and creates no
\* user, for every input that validateRegisterInput rejects: a missing email,
\* username or password, a password shorter than 6 characters, a username
\* shorter than 3 or longer than 30 characters, and a malformed email.
C24_RejectedInputIs400 ==
  [][\A c \in CallIds :
       RejectedArrives(c) =>
         /\ calls'[c].pc = "done"
         /\ calls'[c].status = 400
         /\ calls'[c].body \in ValidationMessages
         /\ users' = users
         /\ userRows' = userRows]_vars

LoginName(c) == (CHOOSE a \in calls[c].cur : TRUE)[1]
LoginPassword(c) == (CHOOSE a \in calls[c].cur : TRUE)[2]
Complete(c) == LoginName(c) # 0 /\ LoginPassword(c) # 0
MatchedRows(c) ==
  {r \in userRows : r.email = LoginName(c) \/ r.username = LoginName(c)}
MatchesNoUser(c) == Complete(c) /\ MatchedRows(c) = {}
WrongPassword(c) ==
  /\ Complete(c)
  /\ MatchedRows(c) # {}
  /\ \A r \in MatchedRows(c) : PasswordOf(r) # LoginPassword(c)
HasToken(c) == "token" \in DOMAIN calls[c].body

CardCalls == {c \in CallIds : calls[c].origin = "card"}
Settles(c) == calls[c].origin = "card" /\ calls[c].pc = "done" /\ calls'[c].pc = "idle"
LikesOn(rows, postId) == {r \in rows : r.post_id = postId /\ r.vote_type = 1}
OthersRows(rows, c) ==
  {r \in rows : r.post_id = calls[c].target /\ r.user_id # calls[c].userId}
ShownWasStoredAtClick(c) ==
  calls[c].shownAtClick =
    <<calls[c].storedBefore, Cardinality(LikesOn(calls[c].likesAtClick, calls[c].target))>>
ShowsStoredAfter(c) ==
  /\ card'.currentUserVote = getUserVoteOnPost(calls[c].userId, calls[c].target)
  /\ card'.currentLikeCount = Cardinality(LikesOn(likes, calls[c].target))
Outcome(c) ==
  /\ calls[c].status = 200 /\ ShownWasStoredAtClick(c) =>
       card'.currentUserVote = calls[c].result
  /\ calls[c].status # 200 =>
       <<card'.currentUserVote, card'.currentLikeCount>> = calls[c].shownAtClick
Undisturbed(c) ==
  /\ \E r \in posts : r.id = calls[c].target
  /\ OthersRows(likes, c) = OthersRows(calls[c].likesAtClick, c)

\* C26 (as amended): if the vote and like count shown by a PostCard equal the
\* server's stored vote and like count for the post when a like or dislike click
\* is handled, and no other request deletes the post or changes its votes while
\* the request is in flight, they are equal again once the request settles: on
\* success the card shows the status that castOrRemoveVote produced, and on
\* failure the card is rolled back to its pre-click vote and like count.
C26_CardFollowsServer ==
  [][\A c \in CallIds :
       Settles(c) =>
         /\ Outcome(c)
         /\ ShownWasStoredAtClick(c) /\ Undisturbed(c) => ShowsStoredAfter(c)]_vars

C26_Witness ==
  /\ card.mounted /\ ~card.isVoting
  /\ CardCalls = {}
  /\ card.currentUserVote = 1
  /\ card.currentLikeCount = 2
  /\ Cardinality(LikesOn(likes, card.post)) = 2
  /\ \E user \in authState.user : getUserVoteOnPost(user, card.post) = 1

\* C26 as stated: equal when the click is handled implies equal once the request
\* settles, whatever other requests do meanwhile.
C26_Original ==
  [][\A c \in CallIds :
       Settles(c) =>
         /\ Outcome(c)
         /\ ShownWasStoredAtClick(c) => ShowsStoredAfter(c)]_vars

BothNonNull == authState.token # {} /\ authState.user # {}
LogsOut ==
  /\ ~authState.isLoading
  /\ ~authState'.isLoading
  /\ ~authState'.isAuthenticated
LoadsSession == authState.isLoading /\ ~authState'.isLoading
AuthConsistent ==
  /\ authState.isAuthenticated <=> BothNonNull
  /\ ProtectedRoute = "children" => authState.isAuthenticated /\ ~authState.isLoading

\* C30: in every state of the client's AuthProvider, isAuthenticated is true
\* exactly when both token and user are non-null; logout clears the state and
\* both stored keys, so a later reload starts unauthenticated; ProtectedRoute
\* renders its children only in states where isAuthenticated is true and
\* isLoading is false.
C30_AuthProvider ==
  /\ []AuthConsistent
  /\ [][/\ LogsOut =>
            /\ authState'.token = {} /\ authState'.user = {}
            /\ localStorage'.token = {} /\ localStorage'.user = {}
        /\ LoadsSession /\ (localStorage.token = {} \/ localStorage.user = {}) =>
            ~authState'.isAuthenticated]_vars

C30_Witness ==
  /\ authState.isAuthenticated
  /\ BothNonNull
  /\ ProtectedRoute = "children"
  /\ localStorage.user = {}

FeedAuthors(userId) ==
  {userId} \cup {r.following_id : r \in {f \in follows : f.follower_id = userId}}
FeedRows(userId) == {r \in posts : r.user_id \in FeedAuthors(userId)}
Shown(id) == {i \in DOMAIN feedPage.posts : feedPage.posts[i].id = id}
PagedThrough ==
  /\ feedPage.mounted
  /\ ~feedPage.hasMore
  /\ feedPage.unchanged
  /\ feedPage.seen = [posts |-> posts, follows |-> follows]

\* C28: with the database unchanged between the calls, the pages getFeedForUser
\* returns for offsets 0, L, 2L, ... with limit L, concatenated, contain every
\* post of the requester or a followed user exactly once, in non-increasing
\* created_at order, also when several posts share the same created_at.
C28_PagesCoverFeed ==
  PagedThrough =>
    /\ \A r \in FeedRows(feedPage.user) : Cardinality(Shown(r.id)) = 1
    /\ \A i \in DOMAIN feedPage.posts :
         \E r \in FeedRows(feedPage.user) : r.id = feedPage.posts[i].id
    /\ \A i, j \in DOMAIN feedPage.posts :
         i < j => feedPage.posts[i].createdAt >= feedPage.posts[j].createdAt

\* the same for feeds whose posts all differ in created_at
C28_DistinctTimes ==
  (PagedThrough /\ \A r, q \in FeedRows(feedPage.user) :
                     r.created_at = q.created_at => r = q)
    => /\ \A r \in FeedRows(feedPage.user) : Cardinality(Shown(r.id)) = 1
       /\ Len(feedPage.posts) = Cardinality(FeedRows(feedPage.user))

EdgesOf(rows) == {<<r.follower_id, r.following_id>> : r \in rows}
OtherRows(rows, a, b) == {r \in rows : <<r.follower_id, r.following_id>> # <<a, b>>}
Returns(c, op) ==
  /\ calls[c].pc # "done"
  /\ calls'[c].pc = "done"
  /\ calls'[c].op = op
CanFollow(rows, a, b) == a # b /\ b \in users /\ <<a, b>> \notin EdgesOf(rows)

\* C29: followUser(A, B) followed by unfollowUser(A, B) restores the follow set
\* exactly, neither call adds, removes or changes any edge other than (A, B),
\* and a later followUser(A, B) succeeds again; isFollowing(A, B) is true exactly
\* between a successful follow and the next successful unfollow. Step by step,
\* with one request at a time: followUser(A, B) succeeds whenever A is not B, B
\* exists and A does not follow B, and then adds the edge (A, B) and nothing
\* else; unfollowUser(A, B) succeeds whenever A follows B, and then removes the
\* edge (A, B) and nothing else; a call that fails leaves the set as it was; and
\* no other step changes the set.
C29_FollowUnfollow ==
  [][/\ \A c \in SeqCallIds, a \in UserIds, b \in UserIds :
          LET before == calls'[c].followsBefore
          IN (calls'[c].userId = a /\ calls'[c].target = b) =>
               /\ Returns(c, "follow") =>
                    /\ OtherRows(follows', a, b) = OtherRows(before, a, b)
                    /\ IF CanFollow(before, a, b)
                       THEN /\ calls'[c].status = 200
                            /\ EdgesOf(follows') = EdgesOf(before) \cup {<<a, b>>}
                            /\ isFollowing(a, b)'
                       ELSE /\ calls'[c].status \in {400, 404, 409}
                            /\ follows' = before
               /\ Returns(c, "unfollow") =>
                    /\ OtherRows(follows', a, b) = OtherRows(before, a, b)
                    /\ before = follows
                    /\ IF <<a, b>> \in EdgesOf(before)
                       THEN /\ calls'[c].status = 204
                            /\ EdgesOf(follows') = EdgesOf(before) \ {<<a, b>>}
                            /\ ~isFollowing(a, b)'
                       ELSE /\ calls'[c].status = 404
                            /\ follows' = before
     /\ follows' # follows =>
          \E c \in SeqCallIds : Returns(c, "follow") \/ Returns(c, "unfollow")]_vars

\* user 1 follows user 2 again, at time 1, after the edge made at time 0 was
\* removed: both edges stand, the one of user 2 from time 0
C29_Witness ==
  \E c \in SeqCallIds :
    /\ calls[c].op = "follow" /\ calls[c].pc = "done" /\ calls[c].status = 200
    /\ calls[c].userId = 1 /\ calls[c].target = 2
    /\ follows = {[follower_id |-> 1, following_id |-> 2, created_at |-> 1],
                  [follower_id |-> 2, following_id |-> 1, created_at |-> 0]}

====
